---- MODULE Spec2Model ----
(***************************************************************************)
(* CodeVerseAI: the credential store, the OTP password-reset flow and the  *)
(* login/streak tracker (src/auth.py, src/db.py, src/app.py,               *)
(* src/mail_utils.py, src/dashboard.py).                                   *)
(*                                                                         *)
(* Strings are sequences of one-character strings, so that len(), the      *)
(* character-class tests, the e-mail regular expression, the column widths *)
(* of the tables and bcrypt's 72-byte input limit are computed, not        *)
(* assumed.  The ids of password_reset and user_logins are only ever       *)
(* compared with each other, so these tables are the sequences of their    *)
(* rows by ascending id; users and user_activity are sets of rows.  The    *)
(* session keys user_email and access_token are written by login() and     *)
(* read nowhere; they are left out.                                        *)
(***************************************************************************)
EXTENDS Integers, Sequences, FiniteSets, TLC

\* ------------------------------------------------------------------------
\* Characters and strings
\* ------------------------------------------------------------------------

Uppercase ==
    {"A","B","C","D","E","F","G","H","I","J","K","L","M",
     "N","O","P","Q","R","S","T","U","V","W","X","Y","Z"}

Lowercase ==
    {"a","b","c","d","e","f","g","h","i","j","k","l","m",
     "n","o","p","q","r","s","t","u","v","w","x","y","z"}

Digits ==
    {"0","1","2","3","4","5","6","7","8","9"}

\* the literal "!@#$%^&*()_+-=[]{}|;:,.<>/?" of the strength checks
Symbols ==
    {"!","@","#","$","%","^","&","*","(",")","_","+","-","=","[","]",
     "{","}","|",";",":",",",".","<",">","/","?"}

\* \w of the e-mail regular expression
WordChars ==
    Uppercase \cup Lowercase \cup Digits \cup {"_"}

\* [\w\.-] of the e-mail regular expression
WordDotDash ==
    WordChars \cup {".", "-"}

\* c * n
Rep(c, n) ==
    [i \in 1..n |-> c]

\* str.isdigit(): non-empty and every character a digit
IsDigit(str) ==
    Len(str) > 0 /\ \A i \in 1..Len(str) : str[i] \in Digits

\* re.match(r"^[\w\.-]+@[\w\.-]+\.\w+$", email)
EmailRegexMatch(email) ==
    \E i \in 1..Len(email) :
       /\ email[i] = "@"
       /\ i > 1
       /\ \A k \in 1..(i-1) : email[k] \in WordDotDash
       /\ \E j \in (i+2)..(Len(email)-1) :
             /\ email[j] = "."
             /\ \A k \in (i+1)..(j-1) : email[k] \in WordDotDash
             /\ \A k \in (j+1)..Len(email) : email[k] \in WordChars

\* ------------------------------------------------------------------------
\* Program constants
\* ------------------------------------------------------------------------

MinUsernameLen == 3
MinPasswordLen == 6
UsernameWidth == 100
EmailWidth == 255
OtpLow == 100000
OtpHigh == 999999
OtpLen == 6
OtpLifetime == 300
ResendCooldown == 30
BcryptMaxBytes == 72

\* ------------------------------------------------------------------------
\* Validation (auth.py)
\* ------------------------------------------------------------------------

\* "ok" or the message of the first check of signup() that rejects the form
SignupValidation(username, email, password, confirm, agree) ==
    IF Len(username) = 0 \/ Len(email) = 0 \/ Len(password) = 0 \/ Len(confirm) = 0
      THEN "All fields are required"
    ELSE IF Len(username) < MinUsernameLen
      THEN "Username must be at least 3 characters"
    ELSE IF IsDigit(username)
      THEN "Username cannot be only numbers"
    ELSE IF ~EmailRegexMatch(email)
      THEN "Enter a valid email address"
    ELSE IF Len(password) < MinPasswordLen
      THEN "Password must be at least 6 characters long"
    ELSE IF ~(\E i \in 1..Len(password) : password[i] \in Uppercase)
      THEN "Password must contain uppercase, lowercase, number and special character"
    ELSE IF ~(\E i \in 1..Len(password) : password[i] \in Lowercase)
      THEN "Password must contain uppercase, lowercase, number and special character"
    ELSE IF ~(\E i \in 1..Len(password) : password[i] \in Digits)
      THEN "Password must contain uppercase, lowercase, number and special character"
    ELSE IF ~(\E i \in 1..Len(password) : password[i] \in Symbols)
      THEN "Password must contain uppercase, lowercase, number and special character"
    ELSE IF password # confirm
      THEN "Passwords do not match"
    ELSE IF ~agree
      THEN "You must agree to the Terms & Privacy Policy"
    ELSE "ok"

\* "ok" or the message of the first check of login() that rejects the form
LoginValidation(email, password) ==
    IF Len(email) = 0 \/ Len(password) = 0
      THEN "Please enter both email and password"
    ELSE IF ~EmailRegexMatch(email)
      THEN "Please enter a valid email address"
    ELSE "ok"

\* "ok" or the message of the first check of reset() step 1 that rejects
ResetEmailValidation(email) ==
    IF Len(email) = 0
      THEN "Please enter your email"
    ELSE IF ~EmailRegexMatch(email)
      THEN "Please enter a valid email address"
    ELSE "ok"

\* "ok" or the message of the first check of reset() step 2 that rejects
OtpInputValidation(otp_input) ==
    IF Len(otp_input) = 0
      THEN "Please enter OTP"
    ELSE IF ~IsDigit(otp_input) \/ Len(otp_input) # OtpLen
      THEN "OTP must be a 6-digit number"
    ELSE "ok"

\* variant: step 3 without the check for a special character
NewPasswordWithoutSymbol(new_pw, confirm_pw) ==
    IF Len(new_pw) = 0 \/ Len(confirm_pw) = 0
      THEN "Please fill both password fields"
    ELSE IF Len(new_pw) < MinPasswordLen
      THEN "Password must be at least 6 characters long"
    ELSE IF ~(\E i \in 1..Len(new_pw) : new_pw[i] \in Uppercase)
      THEN "Password must contain uppercase, lowercase, number and special character"
    ELSE IF ~(\E i \in 1..Len(new_pw) : new_pw[i] \in Lowercase)
      THEN "Password must contain uppercase, lowercase, number and special character"
    ELSE IF ~(\E i \in 1..Len(new_pw) : new_pw[i] \in Digits)
      THEN "Password must contain uppercase, lowercase, number and special character"
    ELSE IF new_pw # confirm_pw
      THEN "Passwords do not match"
    ELSE "ok"

\* "ok" or the message of the first check of reset() step 3 that rejects
NewPasswordValidation(new_pw, confirm_pw) ==
    IF Len(new_pw) = 0 \/ Len(confirm_pw) = 0
      THEN "Please fill both password fields"
    ELSE IF Len(new_pw) < MinPasswordLen
      THEN "Password must be at least 6 characters long"
    ELSE IF ~(\E i \in 1..Len(new_pw) : new_pw[i] \in Uppercase)
      THEN "Password must contain uppercase, lowercase, number and special character"
    ELSE IF ~(\E i \in 1..Len(new_pw) : new_pw[i] \in Lowercase)
      THEN "Password must contain uppercase, lowercase, number and special character"
    ELSE IF ~(\E i \in 1..Len(new_pw) : new_pw[i] \in Digits)
      THEN "Password must contain uppercase, lowercase, number and special character"
    ELSE IF ~(\E i \in 1..Len(new_pw) : new_pw[i] \in Symbols)
      THEN "Password must contain uppercase, lowercase, number and special character"
    ELSE IF new_pw # confirm_pw
      THEN "Passwords do not match"
    ELSE "ok"

\* ------------------------------------------------------------------------
\* One-time codes (auth.py generate_otp)
\* ------------------------------------------------------------------------

RECURSIVE DecimalDigits(_)
\* f"{n}" for n >= 0: the decimal digits of n
DecimalDigits(n) ==
    LET d == <<"0","1","2","3","4","5","6","7","8","9">>[(n % 10) + 1]
    IN  IF n < 10 THEN <<d>> ELSE Append(DecimalDigits(n \div 10), d)

\* f"{random.randint(100000, 999999)}", n the number drawn
generate_otp(n) ==
    DecimalDigits(n)

\* ------------------------------------------------------------------------
\* bcrypt (db.py insert_user, update_password, check_password)
\* ------------------------------------------------------------------------

\* bcrypt reads at most the first 72 bytes of the password
BcryptKey(plain_password) ==
    SubSeq(plain_password, 1,
           IF Len(plain_password) < BcryptMaxBytes THEN Len(plain_password)
                                                   ELSE BcryptMaxBytes)

\* bcrypt.hashpw(plain_password.encode(), salt).decode(): the hash carries its salt
hashpw(plain_password, salt) ==
    [salt |-> salt, digest |-> BcryptKey(plain_password)]

\* bcrypt.checkpw: hashes the candidate with the stored hash's salt and compares
check_password(plain_password, hashed_password) ==
    hashpw(plain_password, hashed_password.salt) = hashed_password

\* ------------------------------------------------------------------------
\* Inputs and bounds
\* ------------------------------------------------------------------------

\* how many times the clock is advanced in a run
MaxTicks == 3

\* connections left open that the model counts
MaxOpen == 1

\* the clock advances by one of these numbers of seconds
TickSteps ==
    {1, ResendCooldown, OtpLifetime - ResendCooldown}

\* whole seconds an SMTP exchange takes
SendSeconds ==
    {0, 1}

\* whole seconds between two readings of the clock in one handler
ReadGaps ==
    {0, 1}

Sessions ==
    {"A", "B"}

Salts ==
    {"salt1", "salt2"}

Bob ==
    <<"b","o","b">>

\* a username the form accepts and the username column does not hold
LongName ==
    Rep("u", UsernameWidth + 1)

UsernameInputs ==
    {Bob, LongName}

EmailA ==
    <<"a","@","x",".","i","o">>

EmailB ==
    <<"b","@","x",".","i","o">>

EmailInputs ==
    {EmailA, EmailB}

\* a well-formed address that no account has
EmailC ==
    <<"c","@","x",".","i","o">>

Pw1 ==
    <<"A","b","1","!","x","y">>

\* two passwords of 73 characters that differ in the last one only
Long1 ==
    Pw1 \o Rep("x", BcryptMaxBytes - Len(Pw1)) \o <<"1">>

Long2 ==
    Pw1 \o Rep("x", BcryptMaxBytes - Len(Pw1)) \o <<"2">>

PasswordInputs ==
    {Pw1, Long1, Long2}

\* numbers random.randint(100000, 999999) may draw
OtpDraws ==
    {OtpLow, OtpHigh}

OtpInputs ==
    {generate_otp(n) : n \in OtpDraws} \cup {<<"1","2","3","4","5">>}

\* ------------------------------------------------------------------------
\* State
\* ------------------------------------------------------------------------

VARIABLES
    now,               \* int(time.time()), seconds
    ticks,             \* how many times the clock was advanced
    bcrypt_truncates,  \* the installed bcrypt truncates a password of more than
                       \* 72 bytes (before 5.0) or raises ValueError (from 5.0)
    smtp_up,           \* the SMTP exchange of a mail succeeds
    open_conns,        \* connections that an operation of db.py opened and had not
                       \* closed when it returned or raised
    users,             \* table users: rows [id, username, email, password]
    password_reset,    \* table password_reset: rows [email, otp_code, otp_expiry] by ascending id
    user_logins,       \* table user_logins: committed rows [user_id, login_date] by ascending id
    user_activity,     \* table user_activity: rows [user_id, activity_type, description]
    projects,          \* table projects: files_count of each project id
    project_files,     \* table project_files: committed rows [id, project_id]
    file_id_seq,       \* the last value of the sequence of project_files.id
    file_txn,          \* delete_project_file of each session, statement by statement
    session,           \* st.session_state of each browser session
    login_txn,         \* record_login of each session: the statement it is at and
                       \* the rows its open transaction has inserted
    signup_txn,        \* signup() of each session between its lookup and its INSERT
    save_txn,          \* save_password_reset_otp of each session, statement by statement
    out,               \* what the last handler run showed and what became of the
                       \* mail it sent: [msg, value, mail]
    last_plain,        \* history: the plaintext last hashed into the row of each email
    prev_plain,        \* history: the plaintext that a reset commit last replaced
                       \* by a different one, per email
    last_issued,       \* history: the code generate_otp last returned for each email
    verified           \* history: the password_reset rows a verification has accepted

vars ==
    <<now, ticks, bcrypt_truncates, smtp_up, open_conns, users, password_reset,
      user_logins, user_activity, projects, project_files, file_id_seq, file_txn,
      session, login_txn, signup_txn, save_txn, out,
      last_plain, prev_plain, last_issued, verified>>

\* session.get("user") of a session without the key
NoUser ==
    [id |-> 0, username |-> <<>>]

\* a key of st.session_state that is not set
Absent ==
    "absent"

\* st.session_state after app.py has initialised it (app.py 11-15)
NewSession ==
    [auth_mode           |-> "landing",
     authenticated       |-> FALSE,
     user                |-> NoUser,
     reset_step          |-> Absent,
     reset_email         |-> <<>>,
     otp_cooldown_until  |-> 0]

\* variant: the page is the one auth_mode names, authenticated or not
ModeByAuthMode(ss) ==
    ss.auth_mode

\* app.py 18-22: the page a script run renders
Mode(ss) ==
    IF ss.authenticated THEN "dashboard" ELSE ss.auth_mode

\* the three keys Forgot? and a completed reset pop
PopResetKeys(ss) ==
    [ss EXCEPT !.reset_step = Absent,
               !.reset_email = <<>>,
               !.otp_cooldown_until = 0]

\* st.error / st.success / st.warning of a handler run ("" when it shows none)
Shown(msg) ==
    [msg |-> msg, value |-> 0, mail |-> "none"]

\* what a handler shows after send_otp_mail returned: the function catches
\* every exception of the SMTP exchange and prints it (mail_utils.py 112-138),
\* so the caller's else branch runs whether or not the mail left
Mailed(msg, up) ==
    [msg |-> msg, value |-> 0, mail |-> IF up THEN "delivered" ELSE "failed"]

\* ------------------------------------------------------------------------
\* Tables (db.py)
\* ------------------------------------------------------------------------

\* the next value of a table's SERIAL id
NextId(rows) ==
    IF rows = {} THEN 1
    ELSE (CHOOSE m \in {r.id : r \in rows} : \A r \in rows : r.id <= m) + 1

\* variant: a lookup that finds nobody
LookupNobody(rows, email) ==
    {}

\* variant: a lookup that finds a row whatever the address
LookupAnybody(rows, email) ==
    rows

\* SELECT * FROM users WHERE email = %s
UsersByEmail(rows, email) ==
    {u \in rows : u.email = email}

\* cur.fetchone() of find_user_by_email, when a row was found
find_user_by_email(rows, email) ==
    CHOOSE u \in UsersByEmail(rows, email) : TRUE

\* INSERT INTO users: the column widths and UNIQUE(email) decide
\* variant: a users table without UNIQUE on email
InsertWithoutUnique(rows, username, email) ==
    /\ Len(username) <= UsernameWidth
    /\ Len(email) <= EmailWidth

UsersInsertAccepted(rows, username, email) ==
    /\ Len(username) <= UsernameWidth
    /\ Len(email) <= EmailWidth
    /\ UsersByEmail(rows, email) = {}

\* hashpw and checkpw raise ValueError on a password longer than 72 bytes
BcryptRaises(truncates, plain_password) ==
    ~truncates /\ Len(plain_password) > BcryptMaxBytes

\* insert_user after hashing: the table afterwards
insert_user(rows, username, email, plain_password, salt) ==
    IF UsersInsertAccepted(rows, username, email)
      THEN rows \cup {[id       |-> NextId(rows),
                       username |-> username,
                       email    |-> email,
                       password |-> hashpw(plain_password, salt)]}
      ELSE rows

\* variant: the UPDATE without its WHERE
UpdateEveryPassword(rows, email, new_plain_password, salt) ==
    {[u EXCEPT !.password = hashpw(new_plain_password, salt)] : u \in rows}

\* update_password: UPDATE users SET password = %s WHERE email = %s
update_password(rows, email, new_plain_password, salt) ==
    {IF u.email = email
       THEN [u EXCEPT !.password = hashpw(new_plain_password, salt)]
       ELSE u : u \in rows}

\* SELECT * FROM password_reset WHERE email = %s ORDER BY id
RECURSIVE SelectRows(_, _)
SelectRows(rows, email) ==
    IF rows = <<>> THEN <<>>
    ELSE IF Head(rows).email = email
           THEN <<Head(rows)>> \o SelectRows(Tail(rows), email)
           ELSE SelectRows(Tail(rows), email)

RECURSIVE DeleteRows(_, _)
\* DELETE FROM password_reset WHERE email = %s
DeleteRows(rows, email) ==
    IF rows = <<>> THEN <<>>
    ELSE IF Head(rows).email = email
           THEN DeleteRows(Tail(rows), email)
           ELSE <<Head(rows)>> \o DeleteRows(Tail(rows), email)

\* variant: the INSERT without the DELETE
SaveWithoutDelete(rows, email, otp_code, otp_expiry) ==
    Append(rows,
           [email |-> email, otp_code |-> otp_code, otp_expiry |-> otp_expiry])

\* save_password_reset_otp: DELETE the email's rows, INSERT one, in one transaction
save_password_reset_otp(rows, email, otp_code, otp_expiry) ==
    Append(DeleteRows(rows, email),
           [email |-> email, otp_code |-> otp_code, otp_expiry |-> otp_expiry])

\* SELECT * FROM password_reset WHERE email = %s ORDER BY id
ResetRowsOf(rows, email) ==
    SelectRows(rows, email)

\* variant: ... ORDER BY id LIMIT 1, the row inserted first
OldestResetRecord(rows, email) ==
    ResetRowsOf(rows, email)[1]

\* ... ORDER BY id DESC LIMIT 1, when there is a row
get_password_reset_record(rows, email) ==
    ResetRowsOf(rows, email)[Len(ResetRowsOf(rows, email))]

\* clear_password_reset: DELETE FROM password_reset WHERE email = %s
clear_password_reset(rows, email) ==
    DeleteRows(rows, email)

\* CURRENT_DATE as a day number
SecondsPerDay == 86400

CurrentDate(t) ==
    t \div SecondsPerDay

\* a session that is not inside record_login
NoTxn ==
    [pc |-> "idle", user_id |-> 0, login_date |-> 0, inserted |-> <<>>]

\* a committed row of user_logins has this (user_id, login_date)
LoginConflict(rows, user_id, login_date) ==
    \E i \in 1..Len(rows) :
        rows[i].user_id = user_id /\ rows[i].login_date = login_date

\* variant: the INSERT without ON CONFLICT and without the unique index
InsertLoginAlways(rows, user_id, login_date) ==
    <<[user_id |-> user_id, login_date |-> login_date]>>

\* variant: the INSERT adds no row
InsertLoginNever(rows, user_id, login_date) ==
    <<>>

\* INSERT INTO user_logins ... ON CONFLICT (user_id, login_date) DO NOTHING:
\* the rows the statement adds to its transaction
InsertLogin(rows, user_id, login_date) ==
    IF LoginConflict(rows, user_id, login_date)
      THEN <<>>
      ELSE <<[user_id |-> user_id, login_date |-> login_date]>>

\* SELECT login_date FROM user_logins WHERE user_id = %s, as a set
LoginDates(rows, user_id) ==
    {rows[i].login_date : i \in {j \in 1..Len(rows) : rows[j].user_id = user_id}}

\* variant: the number of login days, whatever the gaps
CountDays(dates_set, current_day, streak) ==
    Cardinality(dates_set)

\* the while loop of get_current_streak
RECURSIVE WalkBack(_, _, _)
WalkBack(dates_set, current_day, streak) ==
    IF current_day \in dates_set
      THEN WalkBack(dates_set, current_day - 1, streak + 1)
      ELSE streak

\* variant: the run of login days that ends today
StreakEndingToday(rows, user_id) ==
    WalkBack(LoginDates(rows, user_id), CurrentDate(now), 0)

get_current_streak(rows, user_id) ==
    LET dates_set == LoginDates(rows, user_id) IN
    IF dates_set = {} THEN 0
    ELSE WalkBack(dates_set,
                  CHOOSE d \in dates_set : \A e \in dates_set : e <= d,
                  0)

\* log_user_activity(user_id, 'user_login', f'User {username} logged in');
\* rows that differ in id and created_at only are kept once
LogLoginActivity(rows, allusers, user_id) ==
    rows \cup {[user_id |-> user_id, activity_type |-> "user_login",
                description |-> u.username] :
               u \in {x \in allusers : x.id = user_id}}

\* ------------------------------------------------------------------------
\* Initial state
\* ------------------------------------------------------------------------

\* table projects with no row
NoProjects ==
    [p \in {} |-> 0]

\* delete_project_file is not running
NoFileTxn ==
    [pc |-> "idle", file_id |-> 0, project_id |-> 0, deleted |-> FALSE, files_count |-> 0]

clock == <<now, ticks>>
tables == <<users, password_reset, user_logins, user_activity>>
history == <<last_plain, prev_plain, last_issued, verified>>
file_store == <<projects, project_files, file_id_seq, file_txn>>

\* what a handler that runs as one step leaves alone: the build, the mail
\* server, the connections and the handlers that run statement by statement
steady == <<bcrypt_truncates, file_store, smtp_up, open_conns, signup_txn, save_txn>>

\* the same without the connections
settled == <<bcrypt_truncates, file_store, smtp_up, signup_txn, save_txn>>

\* prev_plain after a commit of new_pw for the email
ReplacedPlain(email, new_pw) ==
    IF new_pw = last_plain[email] THEN prev_plain
    ELSE [prev_plain EXCEPT ![email] = last_plain[email]]

\* a session that is not inside signup()
NoSignup ==
    [pc |-> "idle", username |-> <<>>, email |-> <<>>, password |-> <<>>, salt |-> ""]

\* a session that is not inside save_password_reset_otp
NoSave ==
    [pc |-> "idle", button |-> "", email |-> <<>>, otp_code |-> <<>>,
     otp_expiry |-> 0, snapshot |-> {}, deleted |-> {}]

\* the rows of a table kept as a sequence
Rows(seq) ==
    {seq[i] : i \in 1..Len(seq)}

\* a fresh deployment: empty tables, every browser session new
Init ==
    /\ now = 0
    /\ ticks = 0
    /\ bcrypt_truncates \in BOOLEAN
    /\ projects = NoProjects
    /\ project_files = {}
    /\ file_id_seq = 0
    /\ file_txn = [s \in Sessions |-> NoFileTxn]
    /\ smtp_up = TRUE
    /\ open_conns = 0
    /\ users = {}
    /\ password_reset = <<>>
    /\ user_logins = <<>>
    /\ user_activity = {}
    /\ session = [s \in Sessions |-> NewSession]
    /\ login_txn = [s \in Sessions |-> NoTxn]
    /\ signup_txn = [s \in Sessions |-> NoSignup]
    /\ save_txn = [s \in Sessions |-> NoSave]
    /\ out = Shown("")
    /\ last_plain = [e \in EmailInputs |-> <<>>]
    /\ prev_plain = [e \in EmailInputs |-> <<>>]
    /\ last_issued = [e \in EmailInputs |-> <<>>]
    /\ verified = {}

\* ------------------------------------------------------------------------
\* The clock
\* ------------------------------------------------------------------------

Tick(d) ==
    /\ ticks < MaxTicks
    /\ now' = now + d
    /\ ticks' = ticks + 1
    /\ UNCHANGED <<steady, login_txn, tables, session, out, history>>

\* ------------------------------------------------------------------------
\* landing.py: ?login and ?signup
\* ------------------------------------------------------------------------

LandingRoute(s, target) ==
    /\ Mode(session[s]) = "landing"
    /\ session' = [session EXCEPT ![s].auth_mode = target]
    /\ out' = Shown("")
    /\ UNCHANGED <<clock, steady, login_txn, tables, history>>

\* ------------------------------------------------------------------------
\* auth.py signup()
\* ------------------------------------------------------------------------

\* the Sign Up button (auth.py 402-467)
SignupSubmit(s, username, email, password, confirm, agree, salt) ==
    LET ss == session[s]
        v  == SignupValidation(username, email, password, confirm, agree)
    IN
    /\ Mode(ss) = "signup"
    /\ IF v # "ok" THEN
         /\ out' = Shown(v)
         /\ UNCHANGED <<users, session, last_plain, open_conns>>
       ELSE IF UsersByEmail(users, email) # {} THEN
         /\ out' = Shown("Email already registered")
         /\ UNCHANGED <<users, session, last_plain, open_conns>>
       ELSE IF BcryptRaises(bcrypt_truncates, password) THEN
         \* hashpw raises between get_connection and the try (db.py 160-162)
         /\ open_conns < MaxOpen
         /\ open_conns' = open_conns + 1
         /\ out' = Shown("ValueError")
         /\ UNCHANGED <<users, session, last_plain>>
       ELSE IF UsersInsertAccepted(users, username, email) THEN
         /\ users' = insert_user(users, username, email, password, salt)
         /\ last_plain' = [last_plain EXCEPT ![email] = password]
         /\ session' = [session EXCEPT ![s].auth_mode = "login"]
         /\ out' = Shown("Account created successfully")
         /\ UNCHANGED open_conns
       ELSE
         /\ out' = Shown("Signup failed")
         /\ UNCHANGED <<users, session, last_plain, open_conns>>
    /\ UNCHANGED <<clock, settled, login_txn, password_reset, user_logins,
                   user_activity, prev_plain, last_issued, verified>>

\* Create Account up to the call of insert_user (auth.py 402-454): the form
\* checks and the lookup of the email
SignupLookup(s, username, email, password, confirm, agree, salt) ==
    LET ss == session[s]
        v  == SignupValidation(username, email, password, confirm, agree)
    IN
    /\ Mode(ss) = "signup"
    /\ signup_txn[s].pc = "idle"
    /\ IF v # "ok" THEN
         /\ out' = Shown(v)
         /\ UNCHANGED signup_txn
       ELSE IF UsersByEmail(users, email) # {} THEN
         /\ out' = Shown("Email already registered")
         /\ UNCHANGED signup_txn
       ELSE
         /\ signup_txn' = [signup_txn EXCEPT
                              ![s] = [pc |-> "insert", username |-> username,
                                      email |-> email, password |-> password,
                                      salt |-> salt]]
         /\ out' = Shown("")
    /\ UNCHANGED <<clock, bcrypt_truncates, file_store, smtp_up, open_conns, save_txn, login_txn,
                   tables, session, history>>

\* insert_user and the rest of the handler (db.py 159-179, auth.py 455-467).
\* The INSERT and its commit are one step: an INSERT of an email that another
\* open transaction has inserted waits for that commit and then fails on the
\* unique index, as it does after the commit.
SignupInsert(s) ==
    LET txn == signup_txn[s] IN
    /\ txn.pc = "insert"
    /\ signup_txn' = [signup_txn EXCEPT ![s] = NoSignup]
    /\ IF BcryptRaises(bcrypt_truncates, txn.password) THEN
         /\ open_conns < MaxOpen
         /\ open_conns' = open_conns + 1
         /\ out' = Shown("ValueError")
         /\ UNCHANGED <<users, session, last_plain>>
       ELSE IF UsersInsertAccepted(users, txn.username, txn.email) THEN
         /\ users' = insert_user(users, txn.username, txn.email, txn.password, txn.salt)
         /\ last_plain' = [last_plain EXCEPT ![txn.email] = txn.password]
         /\ session' = [session EXCEPT ![s].auth_mode = "login"]
         /\ out' = Shown("Account created successfully")
         /\ UNCHANGED open_conns
       ELSE
         /\ out' = Shown("Signup failed")
         /\ UNCHANGED <<users, session, last_plain, open_conns>>
    /\ UNCHANGED <<clock, bcrypt_truncates, file_store, smtp_up, save_txn, login_txn,
                   password_reset, user_logins, user_activity, prev_plain, last_issued, verified>>

\* the Login button of the form and "Login to your account" (auth.py 397-399, 478-480)
SignupBack(s) ==
    /\ Mode(session[s]) = "signup"
    /\ session' = [session EXCEPT ![s].auth_mode = "login"]
    /\ out' = Shown("")
    /\ UNCHANGED <<clock, steady, login_txn, tables, history>>

\* ------------------------------------------------------------------------
\* auth.py login()
\* ------------------------------------------------------------------------

\* the Login button up to the call of record_login (auth.py 526-573)
LoginSubmit(s, email, password) ==
    LET ss == session[s]
        v  == LoginValidation(email, password)
    IN
    /\ Mode(ss) = "login"
    /\ IF v # "ok" THEN
         /\ out' = Shown(v)
         /\ UNCHANGED <<session, login_txn>>
       ELSE IF UsersByEmail(users, email) = {} THEN
         /\ out' = Shown("No account found with this email")
         /\ UNCHANGED <<session, login_txn>>
       ELSE
         LET user == find_user_by_email(users, email) IN
         IF BcryptRaises(bcrypt_truncates, password) THEN
           /\ out' = Shown("ValueError")
           /\ UNCHANGED <<session, login_txn>>
         ELSE IF ~check_password(password, user.password) THEN
           /\ out' = Shown("Incorrect password")
           /\ UNCHANGED <<session, login_txn>>
         ELSE
           /\ session' = [session EXCEPT
                            ![s].authenticated = TRUE,
                            ![s].user = [id |-> user.id, username |-> user.username]]
           /\ login_txn' = [login_txn EXCEPT
                              ![s] = [pc |-> "insert", user_id |-> user.id,
                                      login_date |-> 0, inserted |-> <<>>]]
           /\ out' = Shown("")
    /\ UNCHANGED <<clock, steady, tables, history>>

\* another open transaction has inserted a row with this key and not committed:
\* the INSERT waits for it
LoginInsertWaits(s, user_id, login_date) ==
    \E t \in Sessions \ {s} :
        LoginConflict(login_txn[t].inserted, user_id, login_date)

\* record_login: the INSERT statement (db.py 430-437)
RecordLoginInsert(s) ==
    LET txn == login_txn[s] IN
    /\ txn.pc = "insert"
    /\ ~LoginInsertWaits(s, txn.user_id, CurrentDate(now))
    /\ login_txn' = [login_txn EXCEPT
                       ![s].pc = "commit",
                       ![s].login_date = CurrentDate(now),
                       ![s].inserted = InsertLogin(user_logins, txn.user_id,
                                                   CurrentDate(now))]
    /\ UNCHANGED <<clock, steady, tables, session, out, history>>

\* record_login: the activity row and the commit (db.py 440-446), then the
\* rest of the Login button (auth.py 579-581)
RecordLoginCommit(s) ==
    LET txn == login_txn[s] IN
    /\ txn.pc = "commit"
    /\ user_logins' = user_logins \o txn.inserted
    /\ user_activity' = LogLoginActivity(user_activity, users, txn.user_id)
    /\ login_txn' = [login_txn EXCEPT ![s] = NoTxn]
    /\ session' = [session EXCEPT ![s].auth_mode = "dashboard"]
    /\ out' = Shown("Login successful")
    /\ UNCHANGED <<clock, steady, users, password_reset, history>>

\* the Forgot? button (auth.py 519-523), then reset() sets the step (613-614)
LoginForgot(s) ==
    /\ Mode(session[s]) = "login"
    /\ session' = [session EXCEPT
                     ![s] = [PopResetKeys(@) EXCEPT !.auth_mode = "reset",
                                                    !.reset_step = "email"]]
    /\ out' = Shown("")
    /\ UNCHANGED <<clock, steady, login_txn, tables, history>>

\* "Create new account" (auth.py 593-595)
LoginToSignup(s) ==
    /\ Mode(session[s]) = "login"
    /\ session' = [session EXCEPT ![s].auth_mode = "signup"]
    /\ out' = Shown("")
    /\ UNCHANGED <<clock, steady, login_txn, tables, history>>

\* ------------------------------------------------------------------------
\* auth.py reset()
\* ------------------------------------------------------------------------

\* the step reset() works on (auth.py 613-616)
ResetStep(ss) ==
    IF ss.reset_step = Absent THEN "email" ELSE ss.reset_step

\* history: the row a save writes is new, the rows it deletes are gone
VerifiedAfter(rows) ==
    {r \in verified : r \in Rows(rows)} \ {rows[Len(rows)]}

\* variant: the record is written only when the mail leaves
IssueOtpWhenMailed(email, n, t, d) ==
    /\ t + d > now => ticks < MaxTicks
    /\ password_reset' = IF smtp_up
                            THEN save_password_reset_otp(password_reset, email,
                                     generate_otp(n), t + OtpLifetime)
                            ELSE password_reset
    /\ verified' = IF smtp_up THEN VerifiedAfter(password_reset') ELSE verified
    /\ last_issued' = [last_issued EXCEPT ![email] = generate_otp(n)]
    /\ now' = t + d
    /\ ticks' = IF t + d > now THEN ticks + 1 ELSE ticks

\* generate_otp, the expiry and save_password_reset_otp, then the mail
\* (auth.py 650-655 and 719-723): n is the number drawn, t the clock when the
\* expiry is computed and d the seconds the mail takes
IssueOtp(email, n, t, d) ==
    /\ t + d > now => ticks < MaxTicks
    /\ password_reset' = save_password_reset_otp(password_reset, email,
                             generate_otp(n), t + OtpLifetime)
    /\ verified' = VerifiedAfter(password_reset')
    /\ last_issued' = [last_issued EXCEPT ![email] = generate_otp(n)]
    /\ now' = t + d
    /\ ticks' = IF t + d > now THEN ticks + 1 ELSE ticks

\* Send OTP (auth.py 634-664)
ResetSendOtp(s, email, n, d) ==
    LET ss == session[s]
        v  == ResetEmailValidation(email)
    IN
    /\ Mode(ss) = "reset"
    /\ ResetStep(ss) = "email"
    /\ IF v # "ok" THEN
         /\ out' = Shown(v)
         /\ UNCHANGED <<password_reset, session, clock, verified, last_issued>>
       ELSE IF UsersByEmail(users, email) = {} THEN
         /\ out' = Shown("No account found with this email")
         /\ UNCHANGED <<password_reset, session, clock, verified, last_issued>>
       ELSE
         /\ IssueOtp(email, n, now, d)
         /\ session' = [session EXCEPT
                          ![s].reset_email = email,
                          ![s].otp_cooldown_until = now' + ResendCooldown,
                          ![s].reset_step = "otp"]
         /\ out' = Mailed("OTP sent to your email", smtp_up)
    /\ UNCHANGED <<steady, login_txn, users, user_logins, user_activity, last_plain, prev_plain>>

\* variant: a code has expired from the second of its expiry on
ExpiredAtExpiry(t, record) ==
    t >= record.otp_expiry

\* elif now > record["otp_expiry"] (auth.py 703)
\* variant: a code has expired from the second it was issued in
ExpiredOnIssue(t, record) ==
    t >= record.otp_expiry - OtpLifetime

OtpExpired(t, record) ==
    t > record.otp_expiry

\* Verify (auth.py 691-710)
ResetVerify(s, otp_input) ==
    LET ss    == session[s]
        email == ss.reset_email
        v     == OtpInputValidation(otp_input)
    IN
    /\ Mode(ss) = "reset"
    /\ ResetStep(ss) = "otp"
    /\ IF v # "ok" THEN
         /\ out' = Shown(v)
         /\ UNCHANGED <<session, verified>>
       ELSE IF ResetRowsOf(password_reset, email) = <<>> THEN
         /\ out' = Shown("No active OTP found")
         /\ UNCHANGED <<session, verified>>
       ELSE
         LET record == get_password_reset_record(password_reset, email) IN
         IF OtpExpired(now, record) THEN
           /\ out' = Shown("OTP has expired")
           /\ UNCHANGED <<session, verified>>
         ELSE IF otp_input # record.otp_code THEN
           /\ out' = Shown("Invalid OTP")
           /\ UNCHANGED <<session, verified>>
         ELSE
           /\ out' = Shown("OTP verified")
           /\ session' = [session EXCEPT ![s].reset_step = "new_password"]
           /\ verified' = verified \cup {record}
    /\ UNCHANGED <<clock, steady, login_txn, tables, last_plain, prev_plain, last_issued>>

\* variant: the cooldown never ends
OnCooldownForever(t, cooldown_until) ==
    TRUE

\* variant: the cooldown still holds in the second it ends
OnCooldownAtEnd(t, cooldown_until) ==
    t <= cooldown_until

\* if now < cooldown_until (auth.py 716)
OnCooldown(t, cooldown_until) ==
    t < cooldown_until

\* Resend (auth.py 713-729): the clock is read for the cooldown test, d1
\* seconds later for the expiry and, after the mail, for the new cooldown
ResetResend(s, n, d1, d) ==
    LET ss             == session[s]
        email          == ss.reset_email
        cooldown_until == ss.otp_cooldown_until
    IN
    /\ Mode(ss) = "reset"
    /\ ResetStep(ss) = "otp"
    /\ IF OnCooldown(now, cooldown_until) THEN
         /\ out' = [msg |-> "Wait before requesting again",
                    value |-> cooldown_until - now, mail |-> "none"]
         /\ UNCHANGED <<password_reset, session, clock, verified, last_issued>>
       ELSE
         /\ IssueOtp(email, n, now + d1, d)
         /\ session' = [session EXCEPT
                          ![s].otp_cooldown_until = now' + ResendCooldown]
         /\ out' = Mailed("New OTP sent", smtp_up)
    /\ UNCHANGED <<steady, login_txn, users, user_logins, user_activity, last_plain, prev_plain>>

\* Send OTP up to the first statement of save_password_reset_otp
\* (auth.py 634-652, db.py 586-587)
ResetSendBegin(s, email, n) ==
    LET ss == session[s]
        v  == ResetEmailValidation(email)
    IN
    /\ Mode(ss) = "reset"
    /\ ResetStep(ss) = "email"
    /\ save_txn[s].pc = "idle"
    /\ IF v # "ok" THEN
         /\ out' = Shown(v)
         /\ UNCHANGED <<save_txn, last_issued>>
       ELSE IF UsersByEmail(users, email) = {} THEN
         /\ out' = Shown("No account found with this email")
         /\ UNCHANGED <<save_txn, last_issued>>
       ELSE
         /\ save_txn' = [save_txn EXCEPT
                            ![s] = [NoSave EXCEPT !.pc = "delete",
                                                  !.button = "send",
                                                  !.email = email,
                                                  !.otp_code = generate_otp(n),
                                                  !.otp_expiry = now + OtpLifetime]]
         /\ last_issued' = [last_issued EXCEPT ![email] = generate_otp(n)]
         /\ out' = Shown("")
    /\ UNCHANGED <<clock, bcrypt_truncates, file_store, smtp_up, open_conns, signup_txn, login_txn,
                   tables, session, last_plain, prev_plain, verified>>

\* Resend OTP up to the first statement of save_password_reset_otp
\* (auth.py 711-721, db.py 586-587)
ResetResendBegin(s, n) ==
    LET ss             == session[s]
        cooldown_until == ss.otp_cooldown_until
    IN
    /\ Mode(ss) = "reset"
    /\ ResetStep(ss) = "otp"
    /\ save_txn[s].pc = "idle"
    /\ IF OnCooldown(now, cooldown_until) THEN
         /\ out' = [msg |-> "Wait before requesting again",
                    value |-> cooldown_until - now, mail |-> "none"]
         /\ UNCHANGED <<save_txn, last_issued>>
       ELSE
         /\ save_txn' = [save_txn EXCEPT
                            ![s] = [NoSave EXCEPT !.pc = "delete",
                                                  !.button = "resend",
                                                  !.email = ss.reset_email,
                                                  !.otp_code = generate_otp(n),
                                                  !.otp_expiry = now + OtpLifetime]]
         /\ last_issued' = [last_issued EXCEPT ![ss.reset_email] = generate_otp(n)]
         /\ out' = Shown("")
    /\ UNCHANGED <<clock, bcrypt_truncates, file_store, smtp_up, open_conns, signup_txn, login_txn,
                   tables, session, last_plain, prev_plain, verified>>

\* the DELETE of save_password_reset_otp starts (db.py 589): under READ
\* COMMITTED the statement works on the rows of the email that are committed
\* now, here by their positions in the table
SaveDeleteBegin(s) ==
    LET txn == save_txn[s] IN
    /\ txn.pc = "delete"
    /\ save_txn' = [save_txn EXCEPT
                       ![s].pc = "locking",
                       ![s].snapshot = {i \in 1..Len(password_reset) :
                                          password_reset[i].email = txn.email}]
    /\ out' = Shown("")
    /\ UNCHANGED <<clock, bcrypt_truncates, file_store, smtp_up, open_conns, signup_txn, login_txn,
                   tables, session, history>>

\* a row of the statement is deleted by another transaction that has not
\* committed: the DELETE waits for that transaction
SaveDeleteWaits(s) ==
    \E t \in Sessions \ {s} :
        save_txn[t].deleted \cap save_txn[s].snapshot # {}

\* the DELETE ends: it has deleted the rows of its snapshot that no committed
\* transaction deleted meanwhile, and nothing that was inserted meanwhile
SaveDeleteEnd(s) ==
    LET txn == save_txn[s] IN
    /\ txn.pc = "locking"
    /\ ~SaveDeleteWaits(s)
    /\ save_txn' = [save_txn EXCEPT ![s].pc = "insert",
                                    ![s].deleted = txn.snapshot]
    /\ out' = Shown("")
    /\ UNCHANGED <<clock, bcrypt_truncates, file_store, smtp_up, open_conns, signup_txn, login_txn,
                   tables, session, history>>

RECURSIVE KeepRows(_, _, _)
\* the rows from position i on without those at the positions gone
KeepRows(rows, gone, i) ==
    IF i > Len(rows) THEN <<>>
    ELSE IF i \in gone THEN KeepRows(rows, gone, i + 1)
    ELSE <<rows[i]>> \o KeepRows(rows, gone, i + 1)

\* the positions after the rows at the positions gone have left the table
Shifted(positions, gone) ==
    {p - Cardinality({q \in gone : q < p}) : p \in positions \ gone}

\* the INSERT and the commit of save_password_reset_otp, then the mail and the
\* rest of the handler (db.py 591-600, auth.py 654-664 and 722-729)
SaveCommit(s) ==
    LET txn == save_txn[s] IN
    /\ txn.pc = "insert"
    /\ password_reset' =
          Append(KeepRows(password_reset, txn.deleted, 1),
                 [email |-> txn.email, otp_code |-> txn.otp_code,
                  otp_expiry |-> txn.otp_expiry])
    /\ verified' = VerifiedAfter(password_reset')
    /\ save_txn' = [t \in Sessions |->
                       IF t = s THEN NoSave
                       ELSE [save_txn[t] EXCEPT
                               !.snapshot = Shifted(@, txn.deleted),
                               !.deleted = Shifted(@, txn.deleted)]]
    /\ IF txn.button = "send" THEN
         /\ session' = [session EXCEPT
                          ![s].reset_email = txn.email,
                          ![s].otp_cooldown_until = now + ResendCooldown,
                          ![s].reset_step = "otp"]
         /\ out' = Mailed("OTP sent to your email", smtp_up)
       ELSE
         /\ session' = [session EXCEPT
                          ![s].otp_cooldown_until = now + ResendCooldown]
         /\ out' = Mailed("New OTP sent", smtp_up)
    /\ UNCHANGED <<clock, bcrypt_truncates, file_store, smtp_up, open_conns, signup_txn, login_txn,
                   users, user_logins, user_activity, last_plain, prev_plain, last_issued>>

\* Reset (auth.py 748-787)
ResetSubmitPassword(s, new_pw, confirm_pw, salt) ==
    LET ss    == session[s]
        email == ss.reset_email
        v     == NewPasswordValidation(new_pw, confirm_pw)
    IN
    /\ Mode(ss) = "reset"
    /\ ResetStep(ss) = "new_password"
    /\ IF v # "ok" THEN
         /\ out' = Shown(v)
         /\ UNCHANGED <<users, password_reset, session, history, open_conns>>
       ELSE IF BcryptRaises(bcrypt_truncates, new_pw) THEN
         \* hashpw raises between get_connection and conn.close (db.py 201-203)
         /\ open_conns < MaxOpen
         /\ open_conns' = open_conns + 1
         /\ out' = Shown("ValueError")
         /\ UNCHANGED <<users, password_reset, session, history>>
       ELSE IF UsersByEmail(users, email) # {} THEN
         /\ users' = update_password(users, email, new_pw, salt)
         /\ last_plain' = [last_plain EXCEPT ![email] = new_pw]
         /\ prev_plain' = ReplacedPlain(email, new_pw)
         /\ last_issued' = [last_issued EXCEPT ![email] = <<>>]
         /\ password_reset' = clear_password_reset(password_reset, email)
         /\ verified' = {r \in verified : r \in Rows(password_reset')}
         /\ session' = [session EXCEPT
                          ![s] = [PopResetKeys(@) EXCEPT !.auth_mode = "login"]]
         /\ out' = Shown("Password reset successful")
         /\ UNCHANGED open_conns
       ELSE
         /\ out' = Shown("Failed to update password")
         /\ UNCHANGED <<users, password_reset, session, history, open_conns>>
    /\ UNCHANGED <<clock, settled, login_txn, user_logins, user_activity>>

\* Back to Login (auth.py 793-795)
ResetBack(s) ==
    /\ Mode(session[s]) = "reset"
    /\ session' = [session EXCEPT ![s].auth_mode = "login"]
    /\ out' = Shown("")
    /\ UNCHANGED <<clock, steady, login_txn, tables, history>>

\* ------------------------------------------------------------------------
\* Failures of the store. An operation of db.py fails either in
\* get_connection, which prints and raises again (db.py 20-29), or in a
\* statement or the commit after the connection was opened; opened tells which.
\* ------------------------------------------------------------------------

\* an operation without try/finally raised: conn.close() was not reached, the
\* connection stays open if it was opened
LeftOpen(opened) ==
    /\ opened => open_conns < MaxOpen
    /\ open_conns' = IF opened THEN open_conns + 1 ELSE open_conns

\* what the page shows when psycopg2's exception leaves the handler
Unhandled ==
    Shown("OperationalError")

\* Login: find_user_by_email raises (auth.py 541, db.py 182-188); login() has
\* no try around the call
LoginLookupFails(s, email, password, opened) ==
    /\ Mode(session[s]) = "login"
    /\ LoginValidation(email, password) = "ok"
    /\ LeftOpen(opened)
    /\ out' = Unhandled
    /\ UNCHANGED <<clock, settled, login_txn, tables, session, history>>

\* Login: record_login raises at its INSERT or later (db.py 423-446); the
\* transaction is lost, login() prints the error and goes on (auth.py 574-581)
RecordLoginFails(s, opened) ==
    /\ login_txn[s].pc \in {"insert", "commit"}
    /\ login_txn[s].pc = "commit" => opened
    /\ LeftOpen(opened)
    /\ login_txn' = [login_txn EXCEPT ![s] = NoTxn]
    /\ session' = [session EXCEPT ![s].auth_mode = "dashboard"]
    /\ out' = Shown("Login successful")
    /\ UNCHANGED <<clock, settled, tables, history>>

\* Sign Up: find_user_by_email raises (auth.py 450), or get_connection in
\* insert_user does, before its try (db.py 160); signup() has no try around
\* either call
SignupLookupFails(s, username, email, password, confirm, agree, opened) ==
    /\ Mode(session[s]) = "signup"
    /\ SignupValidation(username, email, password, confirm, agree) = "ok"
    /\ LeftOpen(opened)
    /\ out' = Unhandled
    /\ UNCHANGED <<clock, settled, login_txn, tables, session, history>>

\* Sign Up: the INSERT or the commit of insert_user raises inside its try
\* (db.py 164-179): the function closes the connection and returns False
SignupInsertFails(s, username, email, password, confirm, agree) ==
    /\ Mode(session[s]) = "signup"
    /\ SignupValidation(username, email, password, confirm, agree) = "ok"
    /\ UsersByEmail(users, email) = {}
    /\ ~BcryptRaises(bcrypt_truncates, password)
    /\ out' = Shown("Signup failed")
    /\ UNCHANGED <<clock, steady, login_txn, tables, session, history>>

\* Send OTP: find_user_by_email raises (auth.py 645)
ResetLookupFails(s, email, opened) ==
    /\ Mode(session[s]) = "reset"
    /\ ResetStep(session[s]) = "email"
    /\ ResetEmailValidation(email) = "ok"
    /\ LeftOpen(opened)
    /\ out' = Unhandled
    /\ UNCHANGED <<clock, settled, login_txn, tables, session, history>>

\* Send OTP or Resend: save_password_reset_otp raises before its commit took
\* effect (auth.py 652 and 721, db.py 586-600); nothing is written
ResetSaveFails(s, email, opened) ==
    LET ss == session[s] IN
    /\ Mode(ss) = "reset"
    /\ \/ /\ ResetStep(ss) = "email"
          /\ ResetEmailValidation(email) = "ok"
          /\ UsersByEmail(users, email) # {}
       \/ /\ ResetStep(ss) = "otp"
          /\ email = ss.reset_email
          /\ ~OnCooldown(now, ss.otp_cooldown_until)
    /\ LeftOpen(opened)
    /\ out' = Unhandled
    /\ UNCHANGED <<clock, settled, login_txn, tables, session, history>>

\* Verify: get_password_reset_record raises (auth.py 699, db.py 603-616)
ResetRecordFails(s, otp_input, opened) ==
    /\ Mode(session[s]) = "reset"
    /\ ResetStep(session[s]) = "otp"
    /\ OtpInputValidation(otp_input) = "ok"
    /\ LeftOpen(opened)
    /\ out' = Unhandled
    /\ UNCHANGED <<clock, settled, login_txn, tables, session, history>>

\* Reset: update_password raises before its commit took effect (auth.py 778,
\* db.py 200-213)
ResetUpdateFails(s, new_pw, confirm_pw, opened) ==
    /\ Mode(session[s]) = "reset"
    /\ ResetStep(session[s]) = "new_password"
    /\ NewPasswordValidation(new_pw, confirm_pw) = "ok"
    /\ opened => ~BcryptRaises(bcrypt_truncates, new_pw)
    /\ LeftOpen(opened)
    /\ out' = Unhandled
    /\ UNCHANGED <<clock, settled, login_txn, tables, session, history>>

\* Reset: update_password has committed and clear_password_reset raises
\* (auth.py 780, db.py 619-624): the password is changed, the record and the
\* session stay
ResetClearFails(s, new_pw, confirm_pw, salt, opened) ==
    LET email == session[s].reset_email IN
    /\ Mode(session[s]) = "reset"
    /\ ResetStep(session[s]) = "new_password"
    /\ NewPasswordValidation(new_pw, confirm_pw) = "ok"
    /\ ~BcryptRaises(bcrypt_truncates, new_pw)
    /\ UsersByEmail(users, email) # {}
    /\ LeftOpen(opened)
    /\ users' = update_password(users, email, new_pw, salt)
    /\ last_plain' = [last_plain EXCEPT ![email] = new_pw]
    /\ prev_plain' = ReplacedPlain(email, new_pw)
    /\ out' = Unhandled
    /\ UNCHANGED <<clock, settled, login_txn, password_reset, user_logins,
                   user_activity, session, verified, last_issued>>

\* ------------------------------------------------------------------------
\* dashboard.py
\* ------------------------------------------------------------------------

\* Logout (dashboard.py 777-780), then app.py 11-15 on the rerun
Logout(s) ==
    /\ Mode(session[s]) = "dashboard"
    /\ login_txn[s].pc = "idle"
    /\ session' = [session EXCEPT ![s].user = NoUser,
                                  ![s].authenticated = FALSE,
                                  ![s].auth_mode = "landing"]
    /\ out' = Shown("")
    /\ UNCHANGED <<clock, steady, login_txn, tables, history>>

\* the streak the dashboard shows (dashboard.py 209-236)
Dashboard(s) ==
    LET ss == session[s] IN
    /\ Mode(ss) = "dashboard"
    /\ login_txn[s].pc = "idle"
    /\ ss.user # NoUser
    /\ out' = [msg |-> "Streak", mail |-> "none",
                value |-> get_current_streak(user_logins, ss.user.id)]
    /\ UNCHANGED <<clock, steady, login_txn, tables, session, history>>

\* ------------------------------------------------------------------------
\* Specification: signup, login and logout of one browser session from a
\* fresh deployment.
\* ------------------------------------------------------------------------

Next ==
    \/ \E target \in {"login", "signup"} : LandingRoute("A", target)
    \/ \E username \in UsernameInputs, email \in EmailInputs,
          password \in PasswordInputs, agree \in BOOLEAN, salt \in Salts :
          \E confirm \in {password, Pw1} :
             SignupSubmit("A", username, email, password, confirm, agree, salt)
    \/ SignupBack("A")
    \/ \E email \in EmailInputs, password \in PasswordInputs :
          LoginSubmit("A", email, password)
    \/ RecordLoginInsert("A")
    \/ RecordLoginCommit("A")
    \/ LoginToSignup("A")
    \/ Logout("A")

Spec ==
    Init /\ [][Next]_vars

\* ------------------------------------------------------------------------
\* Two accounts have signed up and every session shows the login page.  No
\* password typed from here on is longer than BcryptMaxBytes, so the two
\* builds of bcrypt behave alike and the truncating one is taken.
\* ------------------------------------------------------------------------

\* the password typed on the new-password step
Pw2 ==
    <<"Z","z","9","?","p","q">>

\* the users table after Bob signed up twice, with EmailA and then EmailB
TwoAccounts ==
    insert_user(insert_user({}, Bob, EmailA, Pw1, "salt1"),
                Bob, EmailB, Pw1, "salt1")

InitReset ==
    /\ now = 0
    /\ ticks = 0
    /\ bcrypt_truncates = TRUE
    /\ projects = NoProjects
    /\ project_files = {}
    /\ file_id_seq = 0
    /\ file_txn = [s \in Sessions |-> NoFileTxn]
    /\ smtp_up = TRUE
    /\ open_conns = 0
    /\ users = TwoAccounts
    /\ password_reset = <<>>
    /\ user_logins = <<>>
    /\ user_activity = {}
    /\ session = [s \in Sessions |-> [NewSession EXCEPT !.auth_mode = "login"]]
    /\ login_txn = [s \in Sessions |-> NoTxn]
    /\ signup_txn = [s \in Sessions |-> NoSignup]
    /\ save_txn = [s \in Sessions |-> NoSave]
    /\ out = Shown("")
    /\ last_plain = [e \in EmailInputs |-> Pw1]
    /\ prev_plain = [e \in EmailInputs |-> <<>>]
    /\ last_issued = [e \in EmailInputs |-> <<>>]
    /\ verified = {}

\* ------------------------------------------------------------------------
\* Specification: the password reset of one browser session for one email
\* while the clock runs, also between a handler's readings of it.
\* ------------------------------------------------------------------------

NextReset ==
    \/ \E d \in TickSteps : Tick(d)
    \/ LoginForgot("A")
    \/ \E n \in OtpDraws, d \in SendSeconds : ResetSendOtp("A", EmailA, n, d)
    \/ \E otp_input \in OtpInputs : ResetVerify("A", otp_input)
    \/ \E n \in OtpDraws, d1 \in ReadGaps, d \in SendSeconds :
          ResetResend("A", n, d1, d)
    \/ \E confirm_pw \in {Pw1, Pw2} : ResetSubmitPassword("A", Pw2, confirm_pw, "salt2")
    \/ ResetBack("A")

SpecReset ==
    InitReset /\ [][NextReset]_vars

\* ------------------------------------------------------------------------
\* Specification: password resets of two browser sessions for two emails.
\* The clock passes the resend cooldown at most SharedTicks times, a mail
\* takes no time and the codes entered are the codes that can be drawn.
\* ------------------------------------------------------------------------

SharedTicks == 1

NextShared ==
    \/ ticks < SharedTicks /\ Tick(ResendCooldown)
    \/ \E s \in Sessions : LoginForgot(s)
    \/ \E s \in Sessions, email \in EmailInputs, n \in OtpDraws :
          ResetSendOtp(s, email, n, 0)
    \/ \E s \in Sessions, n \in OtpDraws : ResetVerify(s, generate_otp(n))
    \/ \E s \in Sessions, n \in OtpDraws : ResetResend(s, n, 0, 0)
    \/ \E s \in Sessions : ResetSubmitPassword(s, Pw2, Pw2, "salt2")
    \/ \E s \in Sessions : ResetBack(s)

SpecShared ==
    InitReset /\ [][NextShared]_vars

\* ------------------------------------------------------------------------
\* Specification: logins of two browser sessions on MaxDays + 1 days,
\* record_login statement by statement.
\* ------------------------------------------------------------------------

MaxDays == 1

NextLogins ==
    \/ ticks < MaxDays /\ Tick(SecondsPerDay)
    \/ \E s \in Sessions, email \in EmailInputs : LoginSubmit(s, email, Pw1)
    \/ \E s \in Sessions : RecordLoginInsert(s)
    \/ \E s \in Sessions : RecordLoginCommit(s)
    \/ \E s \in Sessions : Dashboard(s)
    \/ \E s \in Sessions : Logout(s)
    \/ \E s \in Sessions : LandingRoute(s, "login")

SpecLogins ==
    InitReset /\ [][NextLogins]_vars

\* ------------------------------------------------------------------------
\* Specification: the streak of a user with any history of login days.
\* ------------------------------------------------------------------------

\* the user's login days are among days 1..MaxDay; today is day MaxDay
MaxDay == 8

\* the rows of user_id for the days of a set, by ascending day
RECURSIVE LoginRows(_, _)
LoginRows(user_id, days) ==
    IF days = {} THEN <<>>
    ELSE LET last == CHOOSE d \in days : \A e \in days : e <= d IN
         Append(LoginRows(user_id, days \ {last}),
                [user_id |-> user_id, login_date |-> last])

\* session A of a user who has logged in is still on the dashboard
InitStreak ==
    /\ now = MaxDay * SecondsPerDay
    /\ ticks = 0
    /\ bcrypt_truncates = TRUE
    /\ projects = NoProjects
    /\ project_files = {}
    /\ file_id_seq = 0
    /\ file_txn = [s \in Sessions |-> NoFileTxn]
    /\ smtp_up = TRUE
    /\ open_conns = 0
    /\ users = TwoAccounts
    /\ password_reset = <<>>
    /\ \E days \in SUBSET (1..MaxDay) : user_logins = LoginRows(1, days)
    /\ user_activity = IF user_logins = <<>> THEN {}
                       ELSE LogLoginActivity({}, users, 1)
    /\ session = [s \in Sessions |->
                    IF s = "A" /\ user_logins # <<>>
                      THEN [NewSession EXCEPT !.auth_mode = "dashboard",
                                              !.authenticated = TRUE,
                                              !.user = [id |-> 1, username |-> Bob]]
                      ELSE [NewSession EXCEPT !.auth_mode = "login"]]
    /\ login_txn = [s \in Sessions |-> NoTxn]
    /\ signup_txn = [s \in Sessions |-> NoSignup]
    /\ save_txn = [s \in Sessions |-> NoSave]
    /\ out = Shown("")
    /\ last_plain = [e \in EmailInputs |-> Pw1]
    /\ prev_plain = [e \in EmailInputs |-> <<>>]
    /\ last_issued = [e \in EmailInputs |-> <<>>]
    /\ verified = {}

NextStreak ==
    \/ LoginSubmit("A", EmailA, Pw1)
    \/ RecordLoginInsert("A")
    \/ RecordLoginCommit("A")
    \/ Dashboard("A")
    \/ Logout("A")
    \/ LandingRoute("A", "login")

SpecStreak ==
    InitStreak /\ [][NextStreak]_vars

\* ------------------------------------------------------------------------
\* Properties of signup and login (Spec)
\* ------------------------------------------------------------------------

\* C1: a signup whose inputs pass the form's validation, for an email no user
\* has, adds exactly one user row and reports success.
C1_FreshSignupSucceeds ==
    [][\A username \in UsernameInputs, email \in EmailInputs,
          password \in PasswordInputs, salt \in Salts :
          ( /\ ~\E u \in users : u.email = email
            /\ SignupValidation(username, email, password, password, TRUE) = "ok"
            /\ SignupSubmit("A", username, email, password, password, TRUE, salt) )
          => /\ out'.msg = "Account created successfully"
             /\ \E u \in users' \ users :
                   /\ u.email = email
                   /\ users' = users \cup {u}]_vars

\* C2: a signup for an email that a user already has is reported as
\* "Email already registered", keeps the session on the signup page and leaves
\* the users table as it was.
C2_DuplicateSignupFails ==
    [][\A username \in UsernameInputs, email \in EmailInputs,
          password \in PasswordInputs, salt \in Salts :
          ( /\ \E u \in users : u.email = email
            /\ SignupSubmit("A", username, email, password, password, TRUE, salt) )
          => /\ users' = users
             /\ out'.msg = "Email already registered"
             /\ session'["A"].auth_mode = "signup"]_vars

\* a signup for a registered email has just been refused
C2_Witness ==
    /\ out.msg = "Email already registered"
    /\ users # {}
    /\ session["A"].auth_mode = "signup"

\* C3: a login with a well-formed email and a password ends in exactly one of
\* three ways: no user has the email and "no account" is shown; the password
\* is not the one last stored for the user and "incorrect password" is shown;
\* the password is the one last stored and the session is authenticated as
\* that user.  The two errors leave the session and the login tables alone.
C3_LoginOutcomes ==
    [][\A email \in EmailInputs, password \in PasswordInputs :
          ( /\ LoginSubmit("A", email, password)
            /\ LoginValidation(email, password) = "ok" )
          => IF ~\E u \in users : u.email = email THEN
               /\ out'.msg = "No account found with this email"
               /\ UNCHANGED <<session, login_txn, user_logins, user_activity>>
             ELSE IF password # last_plain[email] THEN
               /\ out'.msg = "Incorrect password"
               /\ UNCHANGED <<session, login_txn, user_logins, user_activity>>
             ELSE
               /\ session'["A"].authenticated
               /\ \E u \in users : /\ u.email = email
                                   /\ session'["A"].user.id = u.id]_vars

\* ------------------------------------------------------------------------
\* Properties of the one-time code in time (SpecReset)
\* ------------------------------------------------------------------------

\* the row of an email with the greatest id
LatestRow(rows, email) ==
    rows[CHOOSE i \in 1..Len(rows) :
            /\ rows[i].email = email
            /\ \A j \in (i + 1)..Len(rows) : rows[j].email # email]

HasRow(rows, email) ==
    \E i \in 1..Len(rows) : rows[i].email = email

\* C4: the record a request or a resend writes expires OtpLifetime seconds
\* after the clock reading it was computed from; a verification with the
\* stored code moves the session to the new-password step when now <= expiry,
\* and otherwise shows "expired" and leaves the session on the code step.
C4_ExpiryWindow ==
    [][/\ \A n \in OtpDraws, d \in SendSeconds :
             ( /\ ResetSendOtp("A", EmailA, n, d)
               /\ out'.msg = "OTP sent to your email" )
             => LatestRow(password_reset', EmailA).otp_expiry = now + OtpLifetime
       /\ \A n \in OtpDraws, d1 \in ReadGaps, d \in SendSeconds :
             ( /\ ResetResend("A", n, d1, d)
               /\ out'.msg = "New OTP sent" )
             => LatestRow(password_reset', session["A"].reset_email).otp_expiry
                   = now + d1 + OtpLifetime
       /\ \A otp_input \in OtpInputs :
             ( /\ ResetVerify("A", otp_input)
               /\ HasRow(password_reset, session["A"].reset_email)
               /\ otp_input = LatestRow(password_reset,
                                        session["A"].reset_email).otp_code )
             => IF now <= LatestRow(password_reset,
                                    session["A"].reset_email).otp_expiry
                  THEN /\ session'["A"].reset_step = "new_password"
                       /\ out'.msg = "OTP verified"
                  ELSE /\ session' = session
                       /\ session["A"].reset_step = "otp"
                       /\ out'.msg = "OTP has expired"]_vars

\* the stored code was entered one second after its expiry and refused
C4_Witness ==
    /\ out.msg = "OTP has expired"
    /\ session["A"].reset_step = "otp"
    /\ HasRow(password_reset, EmailA)
    /\ now = LatestRow(password_reset, EmailA).otp_expiry + 1

\* C6 as stated: an accepted resend at time t writes the expiry t + 300 and
\* restarts the cooldown at t + 30.
C6_CooldownFromResendTime ==
    [][\A n \in OtpDraws, d1 \in ReadGaps, d \in SendSeconds :
          ( /\ ResetResend("A", n, d1, d)
            /\ now >= session["A"].otp_cooldown_until )
          => /\ LatestRow(password_reset', session["A"].reset_email).otp_expiry
                  = now + OtpLifetime
             /\ session'["A"].otp_cooldown_until = now + ResendCooldown]_vars

\* C6: a resend at time t before cooldown_until shows the wait
\* cooldown_until - t >= 1 and changes neither the record nor the cooldown; a
\* resend at t >= cooldown_until replaces the record by one with the code
\* drawn and the expiry t1 + 300, and restarts the cooldown at t2 + 30, where
\* t <= t1 <= t2 are the clock readings before and after the mail.
C6_ResendCooldown ==
    [][\A n \in OtpDraws, d1 \in ReadGaps, d \in SendSeconds :
          ResetResend("A", n, d1, d)
          => IF now < session["A"].otp_cooldown_until THEN
               /\ out'.msg = "Wait before requesting again"
               /\ out'.value = session["A"].otp_cooldown_until - now
               /\ out'.value >= 1
               /\ UNCHANGED <<password_reset, session>>
             ELSE
               /\ out'.msg = "New OTP sent"
               /\ \E i \in 1..Len(password_reset') :
                     /\ password_reset'[i] =
                          [email      |-> session["A"].reset_email,
                           otp_code   |-> generate_otp(n),
                           otp_expiry |-> now + d1 + OtpLifetime]
                     /\ \A j \in 1..Len(password_reset') :
                           password_reset'[j].email = session["A"].reset_email
                           => j = i
               /\ now' = now + d1 + d
               /\ session'["A"].otp_cooldown_until = now' + ResendCooldown]_vars

\* a resend was accepted and its mail took a second
C6_Witness ==
    /\ out.msg = "New OTP sent"
    /\ session["A"].reset_step = "otp"
    /\ session["A"].otp_cooldown_until = now + ResendCooldown
    /\ LatestRow(password_reset, EmailA).otp_expiry = now - 1 + OtpLifetime

\* ------------------------------------------------------------------------
\* Properties of password resets in two sessions (SpecShared)
\* ------------------------------------------------------------------------

\* the positions of the rows of an email
RowsAt(rows, email) ==
    {i \in 1..Len(rows) : rows[i].email = email}

\* rows holds exactly one row of row.email, and it is row
OnlyRow(rows, row) ==
    /\ Cardinality(RowsAt(rows, row.email)) = 1
    /\ \A i \in RowsAt(rows, row.email) : rows[i] = row

\* the rows of every email but this one are the same in both tables
OthersKept(before, after, email) ==
    \A e \in EmailInputs \ {email} :
        /\ Cardinality(RowsAt(before, e)) = Cardinality(RowsAt(after, e))
        /\ {before[i] : i \in RowsAt(before, e)} = {after[i] : i \in RowsAt(after, e)}

\* C5: after a request or a resend for an email, password_reset holds exactly
\* one row of that email, with the code and the expiry of that operation, and
\* the rows of the other emails are as before.
C5_OneRecordPerEmail ==
    [][\A s \in Sessions, n \in OtpDraws :
          /\ \A email \in EmailInputs :
                ( /\ out'.msg = "OTP sent to your email"
                  /\ session'[s].reset_email = email
                  /\ session'[s] # session[s]
                  /\ ResetSendOtp(s, email, n, 0) )
                => /\ OnlyRow(password_reset',
                              [email |-> email, otp_code |-> generate_otp(n),
                               otp_expiry |-> now + OtpLifetime])
                   /\ OthersKept(password_reset, password_reset', email)
          /\ ( /\ out'.msg = "New OTP sent"
               /\ session'[s] # session[s]
               /\ ResetResend(s, n, 0, 0) )
             => /\ OnlyRow(password_reset',
                           [email |-> session[s].reset_email,
                            otp_code |-> generate_otp(n),
                            otp_expiry |-> now + OtpLifetime])
                /\ OthersKept(password_reset, password_reset',
                              session[s].reset_email)]_vars

\* a resend has replaced the record of EmailA next to the record of EmailB
C5_Witness ==
    /\ out.msg = "New OTP sent"
    /\ OnlyRow(password_reset, [email |-> EmailA, otp_code |-> generate_otp(OtpHigh),
                                otp_expiry |-> ResendCooldown + OtpLifetime])
    /\ OnlyRow(password_reset, [email |-> EmailB, otp_code |-> generate_otp(OtpLow),
                                otp_expiry |-> OtpLifetime])

\* the changes of reset_step: forward one step, or back to the email step
StepChanges ==
    {<<"email", "otp">>, <<"otp", "new_password">>, <<"new_password", Absent>>}
      \cup {<<x, "email">> : x \in {Absent, "otp", "new_password"}}

\* C9: in every session reset_step changes only forward by one step (or to
\* the email step by Forgot?); the new-password step is entered only from the
\* code step by a verification that accepted an unexpired record of the
\* session's reset email; the reset email stays while the session is past the
\* email step; the users table changes only by a commit of a session on the
\* new-password step, and only in the password of the row of its reset email.
C9_ResetFlowOrder ==
    [][/\ \A s \in Sessions :
             LET a == session[s].reset_step
                 b == session'[s].reset_step
                 e == session[s].reset_email
             IN
             /\ a # b => <<a, b>> \in StepChanges
             /\ (a # b /\ b = "new_password")
                  => /\ out'.msg = "OTP verified"
                     /\ HasRow(password_reset, e)
                     /\ LatestRow(password_reset, e) \in verified'
                     /\ now <= LatestRow(password_reset, e).otp_expiry
             /\ (a \in {"otp", "new_password"} /\ b \in {"otp", "new_password"})
                  => session'[s].reset_email = e
       /\ users' # users
            => \E s \in Sessions :
                  /\ session[s].auth_mode = "reset"
                  /\ session[s].reset_step = "new_password"
                  /\ session'[s].reset_step = Absent
                  /\ \A u \in users : u.email # session[s].reset_email => u \in users'
                  /\ \A v \in users' : \E u \in users :
                        /\ v.id = u.id
                        /\ v.username = u.username
                        /\ v.email = u.email]_vars

\* a session has committed a new password for EmailA and EmailB keeps its own
C9_Witness ==
    /\ out.msg = "Password reset successful"
    /\ \E u \in users : u.email = EmailA /\ u \notin TwoAccounts
    /\ \E u \in users : u.email = EmailB /\ u \in TwoAccounts
    /\ \E s \in Sessions : session[s].auth_mode = "login" /\ session[s].reset_step = Absent

\* C10: a verification never accepts a record that a verification has
\* accepted before.
C10_SingleUse ==
    [][\A s \in Sessions, otp_input \in OtpInputs :
          ( /\ out'.msg = "OTP verified"
            /\ ResetVerify(s, otp_input) )
          => LatestRow(password_reset, session[s].reset_email) \notin verified]_vars

\* ------------------------------------------------------------------------
\* Properties of the login history (SpecStreak, SpecLogins)
\* ------------------------------------------------------------------------

\* the days on which a user has a row in user_logins
DaysOf(user_id) ==
    {d \in 0..(MaxDay + 1) :
        \E i \in 1..Len(user_logins) :
            user_logins[i] = [user_id |-> user_id, login_date |-> d]}

\* C7: the streak of a user without login days is 0; otherwise it is the
\* length k >= 1 of the run of consecutive days that ends at the latest login
\* day: the k days up to the latest are login days and the day before them is
\* not.  It is never negative and never above the number of login days.
C7_StreakIsTrailingRun ==
    \A u \in users :
        LET days   == DaysOf(u.id)
            streak == get_current_streak(user_logins, u.id)
        IN
        /\ streak >= 0
        /\ streak <= Cardinality(days)
        /\ days = {} => streak = 0
        /\ days # {} =>
              \E latest \in days :
                 /\ \A d \in days : d <= latest
                 /\ streak >= 1
                 /\ \A j \in 0..(streak - 1) : latest - j \in days
                 /\ latest - streak \notin days

\* the dashboard shows 4 for the login days 1, 2, 3, 5, 6, 7, 8
C7_Witness ==
    /\ DaysOf(1) = {1, 2, 3, 5, 6, 7, 8}
    /\ out.msg = "Streak"
    /\ out.value = 4

\* the rows of user_logins with this user and day
LoginRowsAt(rows, user_id, login_date) ==
    {i \in 1..Len(rows) :
        rows[i].user_id = user_id /\ rows[i].login_date = login_date}

\* C8: no two rows of user_logins have the same user and day, and when
\* record_login commits the table holds exactly one row of its user and the
\* day of its INSERT, whatever the other sessions do.
C8_OneLoginRowPerDay ==
    /\ [](\A i, j \in 1..Len(user_logins) :
              user_logins[i] = user_logins[j] => i = j)
    /\ [][\A s \in Sessions :
             RecordLoginCommit(s)
             => Cardinality(LoginRowsAt(user_logins', login_txn[s].user_id,
                                        login_txn[s].login_date)) = 1]_vars

\* two record_login calls for one user on one day: the INSERT of session A is
\* not committed and the INSERT of session B waits for it
C8_Witness ==
    /\ login_txn["A"].pc = "commit"
    /\ login_txn["A"].inserted # <<>>
    /\ login_txn["B"].pc = "insert"
    /\ login_txn["B"].user_id = login_txn["A"].user_id
    /\ login_txn["A"].login_date = CurrentDate(now)
    /\ LoginRowsAt(user_logins, login_txn["A"].user_id, CurrentDate(now) - 1) # {}

\* ------------------------------------------------------------------------
\* Specification: one account whose password is reset and then used to log
\* in, on a build whose bcrypt truncates or raises.
\* ------------------------------------------------------------------------

\* the passwords the account can have been created with on this build
FirstPasswords(truncates) ==
    IF truncates THEN {Pw1, Long1} ELSE {Pw1}

InitCommit ==
    /\ now = 0
    /\ ticks = 0
    /\ bcrypt_truncates \in BOOLEAN
    /\ projects = NoProjects
    /\ project_files = {}
    /\ file_id_seq = 0
    /\ file_txn = [s \in Sessions |-> NoFileTxn]
    /\ smtp_up = TRUE
    /\ open_conns = 0
    /\ \E first \in FirstPasswords(bcrypt_truncates) :
          /\ users = insert_user({}, Bob, EmailA, first, "salt1")
          /\ last_plain = [e \in EmailInputs |-> IF e = EmailA THEN first ELSE <<>>]
    /\ password_reset = <<>>
    /\ user_logins = <<>>
    /\ user_activity = {}
    /\ session = [s \in Sessions |-> [NewSession EXCEPT !.auth_mode = "login"]]
    /\ login_txn = [s \in Sessions |-> NoTxn]
    /\ signup_txn = [s \in Sessions |-> NoSignup]
    /\ save_txn = [s \in Sessions |-> NoSave]
    /\ out = Shown("")
    /\ prev_plain = [e \in EmailInputs |-> <<>>]
    /\ last_issued = [e \in EmailInputs |-> <<>>]
    /\ verified = {}

NextCommit ==
    \/ LoginForgot("A")
    \/ \E n \in OtpDraws : ResetSendOtp("A", EmailA, n, 0)
    \/ \E n \in OtpDraws : ResetVerify("A", generate_otp(n))
    \/ \E new_pw \in {Pw2, Long2}, confirm_pw \in {Pw2, Long2} :
          ResetSubmitPassword("A", new_pw, confirm_pw, "salt2")
    \/ ResetBack("A")
    \/ \E password \in {Pw1, Pw2, Long1, Long2} : LoginSubmit("A", EmailA, password)
    \/ RecordLoginInsert("A")
    \/ RecordLoginCommit("A")
    \/ Logout("A")
    \/ LandingRoute("A", "login")

SpecCommit ==
    InitCommit /\ [][NextCommit]_vars

\* C11: a successful reset commit for an email leaves no password_reset row of
\* that email, clears the session's reset step, email and cooldown and returns
\* it to the login page; afterwards a login with the new password authenticates
\* as the user id the account had before, and a login with the previous
\* password, when it differs from the new one, is rejected as incorrect
C11_CommitReplacesPassword ==
    [][ /\ \A new_pw \in {Pw2, Long2}, confirm_pw \in {Pw2, Long2} :
            ( /\ out'.msg = "Password reset successful"
              /\ ResetSubmitPassword("A", new_pw, confirm_pw, "salt2") )
            => /\ ResetRowsOf(password_reset', session["A"].reset_email) = <<>>
               /\ session'["A"] = [PopResetKeys(session["A"]) EXCEPT !.auth_mode = "login"]
               /\ {u.id : u \in UsersByEmail(users', session["A"].reset_email)}
                    = {u.id : u \in UsersByEmail(users, session["A"].reset_email)}
        /\ \A password \in {Pw1, Pw2, Long1, Long2} :
            ( /\ prev_plain[EmailA] # <<>>
              /\ LoginSubmit("A", EmailA, password) )
            => /\ password = last_plain[EmailA]
                  => /\ session'["A"].authenticated
                     /\ session'["A"].user.id = find_user_by_email(users, EmailA).id
               /\ (password = prev_plain[EmailA] /\ password # last_plain[EmailA])
                  => out'.msg = "Incorrect password"
      ]_vars


\* ------------------------------------------------------------------------
\* Specification: the password reset of one browser session with a mail
\* server that is reachable or one that is not, for a registered and an
\* unregistered address.
\* ------------------------------------------------------------------------

InitMail ==
    /\ now = 0
    /\ ticks = 0
    /\ bcrypt_truncates = TRUE
    /\ projects = NoProjects
    /\ project_files = {}
    /\ file_id_seq = 0
    /\ file_txn = [s \in Sessions |-> NoFileTxn]
    /\ smtp_up \in BOOLEAN
    /\ open_conns = 0
    /\ users = TwoAccounts
    /\ password_reset = <<>>
    /\ user_logins = <<>>
    /\ user_activity = {}
    /\ session = [s \in Sessions |-> [NewSession EXCEPT !.auth_mode = "login"]]
    /\ login_txn = [s \in Sessions |-> NoTxn]
    /\ signup_txn = [s \in Sessions |-> NoSignup]
    /\ save_txn = [s \in Sessions |-> NoSave]
    /\ out = Shown("")
    /\ last_plain = [e \in EmailInputs |-> Pw1]
    /\ prev_plain = [e \in EmailInputs |-> <<>>]
    /\ last_issued = [e \in EmailInputs |-> <<>>]
    /\ verified = {}

NextMail ==
    \/ \E d \in TickSteps : Tick(d)
    \/ LoginForgot("A")
    \/ \E email \in {EmailA, EmailC}, n \in OtpDraws, d \in SendSeconds :
          ResetSendOtp("A", email, n, d)
    \/ \E otp_input \in OtpInputs : ResetVerify("A", otp_input)
    \/ \E n \in OtpDraws, d1 \in ReadGaps, d \in SendSeconds :
          ResetResend("A", n, d1, d)
    \/ ResetBack("A")

SpecMail ==
    InitMail /\ [][NextMail]_vars

\* C12: a reset request for a well-formed address that no user has shows an
\* error, leaves the session in the email step with its cooldown as it was,
\* writes no password_reset row and sends no mail
C12_UnknownEmailRejected ==
    [][ \A email \in {EmailA, EmailC}, n \in OtpDraws, d \in SendSeconds :
            ( /\ \A u \in users : u.email # email
              /\ ResetSendOtp("A", email, n, d) )
            => /\ out'.msg = "No account found with this email"
               /\ out'.mail = "none"
               /\ session' = session
               /\ ResetStep(session'["A"]) = "email"
               /\ password_reset' = password_reset
      ]_vars

\* the unregistered address has been submitted in the email step
C12_Witness ==
    /\ out.msg = "No account found with this email"
    /\ Mode(session["A"]) = "reset"
    /\ ResetStep(session["A"]) = "email"
    /\ \A u \in users : u.email # EmailC


\* C13: whenever the SMTP exchange of a request or a resend failed, the handler
\* showed one of its two mail errors and neither "OTP sent" nor "New OTP sent"
C13_MailFailureReported ==
    out.mail = "failed" =>
        /\ out.msg \in {"Could not send OTP", "Could not resend OTP"}
        /\ out.msg \notin {"OTP sent to your email", "New OTP sent"}


\* ------------------------------------------------------------------------
\* Specification: the forms of one browser session submitted with weak
\* passwords, mismatched confirmations and empty or malformed addresses.
\* ------------------------------------------------------------------------

\* passwords that fail one strength check each, and two that pass them all
PwShort    == <<"A","b","1","!","x">>
PwNoUpper  == <<"a","b","1","!","x","y">>
PwNoLower  == <<"A","B","1","!","X","Y">>
PwNoDigit  == <<"A","b","c","!","x","y">>
PwNoSymbol == <<"A","b","1","c","x","y">>

FormPasswords ==
    {PwShort, PwNoUpper, PwNoLower, PwNoDigit, PwNoSymbol, Pw1, Pw2}

\* an address without a dot after the @
EmailNoDot ==
    <<"a","@","x">>

\* the empty and the malformed address
BadEmails ==
    {<<>>, EmailNoDot}

InitForms ==
    /\ now = 0
    /\ ticks = 0
    /\ bcrypt_truncates = TRUE
    /\ projects = NoProjects
    /\ project_files = {}
    /\ file_id_seq = 0
    /\ file_txn = [s \in Sessions |-> NoFileTxn]
    /\ smtp_up = TRUE
    /\ open_conns = 0
    /\ users = insert_user({}, Bob, EmailA, Pw1, "salt1")
    /\ password_reset = <<>>
    /\ user_logins = <<>>
    /\ user_activity = {}
    /\ session = [s \in Sessions |-> [NewSession EXCEPT !.auth_mode = "login"]]
    /\ login_txn = [s \in Sessions |-> NoTxn]
    /\ signup_txn = [s \in Sessions |-> NoSignup]
    /\ save_txn = [s \in Sessions |-> NoSave]
    /\ out = Shown("")
    /\ last_plain = [e \in EmailInputs |-> IF e = EmailA THEN Pw1 ELSE <<>>]
    /\ prev_plain = [e \in EmailInputs |-> <<>>]
    /\ last_issued = [e \in EmailInputs |-> <<>>]
    /\ verified = {}

NextForms ==
    \/ LoginToSignup("A")
    \/ SignupBack("A")
    \/ \E email \in BadEmails \cup {EmailB}, password \in FormPasswords :
       \E confirm \in {password, Pw1}, agree \in BOOLEAN :
          SignupSubmit("A", Bob, email, password, confirm, agree, "salt1")
    \/ \E email \in BadEmails \cup {EmailA}, password \in {<<>>, Pw1} :
          LoginSubmit("A", email, password)
    \/ RecordLoginInsert("A")
    \/ RecordLoginCommit("A")
    \/ Logout("A")
    \/ LandingRoute("A", "login")
    \/ LoginForgot("A")
    \/ \E email \in BadEmails \cup {EmailA}, n \in OtpDraws :
          ResetSendOtp("A", email, n, 0)
    \/ \E n \in OtpDraws : ResetVerify("A", generate_otp(n))
    \/ \E new_pw \in FormPasswords : \E confirm_pw \in {new_pw, Pw1} :
          ResetSubmitPassword("A", new_pw, confirm_pw, "salt2")
    \/ ResetBack("A")

SpecForms ==
    InitForms /\ [][NextForms]_vars

\* a password that the strength policy rejects: shorter than 6 characters or
\* without an uppercase letter, a lowercase letter, a digit or a symbol
Weak(password) ==
    \/ Len(password) < 6
    \/ \A i \in 1..Len(password) : password[i] \notin Uppercase
    \/ \A i \in 1..Len(password) : password[i] \notin Lowercase
    \/ \A i \in 1..Len(password) : password[i] \notin Digits
    \/ \A i \in 1..Len(password) : password[i] \notin Symbols

\* the users table, the password_reset table, the login events and the session
\* are as they were
FlowUntouched ==
    UNCHANGED <<users, password_reset, user_logins, login_txn, session>>

\* C14: a signup or a reset commit with a weak password or a confirmation that
\* differs, and a signup, login or reset request with an empty or malformed
\* address, leave users, password_reset, the login events and the session as
\* they were (a step that changes one of them is none of these submissions);
\* every password that has been stored satisfies the strength policy
C14_RejectedSubmissionChangesNothing ==
    [][ /\ \/ FlowUntouched
           \/ /\ \A email \in BadEmails \cup {EmailB}, password \in FormPasswords :
                 \A confirm \in {password, Pw1}, agree \in BOOLEAN :
                    (Weak(password) \/ password # confirm \/ email \in BadEmails)
                    => ~SignupSubmit("A", Bob, email, password, confirm, agree, "salt1")
              /\ \A email \in BadEmails, password \in {<<>>, Pw1} :
                    ~LoginSubmit("A", email, password)
              /\ \A email \in BadEmails, n \in OtpDraws :
                    ~ResetSendOtp("A", email, n, 0)
              /\ \A new_pw \in FormPasswords : \A confirm_pw \in {new_pw, Pw1} :
                    (Weak(new_pw) \/ new_pw # confirm_pw)
                    => ~ResetSubmitPassword("A", new_pw, confirm_pw, "salt2")
        /\ \A e \in EmailInputs : last_plain'[e] # <<>> => ~Weak(last_plain'[e])
      ]_vars

\* after a signup and a reset commit were accepted, a reset commit with a
\* rejected password has been submitted
C14_Witness ==
    /\ out.msg \in {"Passwords do not match",
                    "Password must contain uppercase, lowercase, number and special character",
                    "Password must be at least 6 characters long"}
    /\ Mode(session["A"]) = "reset"
    /\ ResetStep(session["A"]) = "new_password"
    /\ prev_plain[EmailA] # <<>>
    /\ \E u \in users : u.email = EmailB


\* ------------------------------------------------------------------------
\* Specification: signups of two browser sessions, each in two steps, the
\* lookup of the email and the INSERT.
\* ------------------------------------------------------------------------

InitSignups ==
    /\ now = 0
    /\ ticks = 0
    /\ bcrypt_truncates \in BOOLEAN
    /\ projects = NoProjects
    /\ project_files = {}
    /\ file_id_seq = 0
    /\ file_txn = [s \in Sessions |-> NoFileTxn]
    /\ smtp_up = TRUE
    /\ open_conns = 0
    /\ users = {}
    /\ password_reset = <<>>
    /\ user_logins = <<>>
    /\ user_activity = {}
    /\ session = [s \in Sessions |-> NewSession]
    /\ login_txn = [s \in Sessions |-> NoTxn]
    /\ signup_txn = [s \in Sessions |-> NoSignup]
    /\ save_txn = [s \in Sessions |-> NoSave]
    /\ out = Shown("")
    /\ last_plain = [e \in EmailInputs |-> <<>>]
    /\ prev_plain = [e \in EmailInputs |-> <<>>]
    /\ last_issued = [e \in EmailInputs |-> <<>>]
    /\ verified = {}

NextSignups ==
    \E s \in Sessions :
        \/ LandingRoute(s, "signup")
        \/ \E email \in EmailInputs, password \in {Pw1, Pw2, Long1}, agree \in BOOLEAN :
              SignupLookup(s, Bob, email, password, password, agree, "salt1")
        \/ SignupInsert(s)
        \/ LoginToSignup(s)

SpecSignups ==
    InitSignups /\ [][NextSignups]_vars

NextSaves ==
    \/ ticks < SharedTicks /\ Tick(ResendCooldown)
    \/ \E s \in Sessions :
        \/ save_txn[s].pc = "idle" /\ LoginForgot(s)
        \/ \E n \in OtpDraws : ResetSendBegin(s, EmailA, n)
        \/ \E n \in OtpDraws : ResetResendBegin(s, n)
        \/ SaveDeleteBegin(s)
        \/ SaveDeleteEnd(s)
        \/ SaveCommit(s)
        \/ save_txn[s].pc = "idle" /\ \E n \in OtpDraws : ResetVerify(s, generate_otp(n))
        \/ save_txn[s].pc = "idle" /\ ResetBack(s)

SpecSaves ==
    InitReset /\ [][NextSaves]_vars

\* C16: in every state, also between the statements of two concurrent
\* requests or resends for one email, password_reset holds at most one row
\* of each email
C16_AtMostOneRecord ==
    \A email \in EmailInputs : Len(ResetRowsOf(password_reset, email)) <= 1


\* C17: update_password, called by a reset commit whose form was accepted,
\* succeeds exactly when a user with the email exists; on success the row of
\* the email keeps its id, username and email and holds the hash of the new
\* password, and the other rows are as before; on failure users is as before,
\* the OTP record stays and the session stays in the new-password step
C17_UpdateSucceedsIffUserExists ==
    [][ \A new_pw \in {Pw2, Long2} :
          ResetSubmitPassword("A", new_pw, new_pw, "salt2")
          => LET email   == session["A"].reset_email
                 success == out'.msg = "Password reset successful"
             IN
             /\ success <=> \E u \in users : u.email = email
             /\ success =>
                  /\ \A u \in users :
                        IF u.email = email
                          THEN \E w \in users' :
                                  /\ w.id = u.id
                                  /\ w.username = u.username
                                  /\ w.email = u.email
                                  /\ check_password(new_pw, w.password)
                          ELSE u \in users'
                  /\ Cardinality(users') = Cardinality(users)
             /\ ~success =>
                  /\ users' = users
                  /\ password_reset' = password_reset
                  /\ ResetStep(session'["A"]) = "new_password"
      ]_vars


\* C18: a request or a resend whose mail could not be delivered leaves the
\* record it wrote in password_reset, no later step takes that record away
\* other than a resend that replaces it, and a verification with the code of
\* the record, not later than its expiry, moves the session to the
\* new-password step
C18_UndeliveredOtpStillValid ==
    [][ /\ \A n \in OtpDraws, d \in SendSeconds :
            ( /\ out'.mail = "failed"
              /\ \/ ResetSendOtp("A", EmailA, n, d)
                 \/ \E d1 \in ReadGaps : ResetResend("A", n, d1, d) )
            => /\ HasRow(password_reset', EmailA)
               /\ LatestRow(password_reset', EmailA).otp_code = generate_otp(n)
               /\ LatestRow(password_reset', EmailA).otp_expiry >= now + OtpLifetime
        /\ HasRow(password_reset, EmailA) => HasRow(password_reset', EmailA)
        /\ \A otp_input \in OtpInputs :
            ( /\ ~smtp_up
              /\ HasRow(password_reset, EmailA)
              /\ otp_input = LatestRow(password_reset, EmailA).otp_code
              /\ now <= LatestRow(password_reset, EmailA).otp_expiry
              /\ ResetVerify("A", otp_input) )
            => /\ out'.msg = "OTP verified"
               /\ ResetStep(session'["A"]) = "new_password"
      ]_vars

\* the mail server is unreachable, and the code of a record whose mail failed
\* has been verified in the last second before its expiry
C18_Witness ==
    /\ ~smtp_up
    /\ out.msg = "OTP verified"
    /\ ResetStep(session["A"]) = "new_password"
    /\ HasRow(password_reset, EmailA)
    /\ now = LatestRow(password_reset, EmailA).otp_expiry


\* ------------------------------------------------------------------------
\* Specification: signup, login and reset of one browser session with a store
\* that can fail in any of their operations.
\* ------------------------------------------------------------------------

\* one of the handlers met a failure of the store
StoreFails ==
    \E opened \in BOOLEAN :
        \/ LoginLookupFails("A", EmailA, Pw1, opened)
        \/ RecordLoginFails("A", opened)
        \/ SignupLookupFails("A", Bob, EmailB, Pw1, Pw1, TRUE, opened)
        \/ SignupInsertFails("A", Bob, EmailB, Pw1, Pw1, TRUE)
        \/ ResetLookupFails("A", EmailA, opened)
        \/ ResetSaveFails("A", EmailA, opened)
        \/ \E n \in OtpDraws : ResetRecordFails("A", generate_otp(n), opened)
        \/ ResetUpdateFails("A", Pw2, Pw2, opened)
        \/ ResetClearFails("A", Pw2, Pw2, "salt2", opened)

NextStore ==
    \/ ticks < SharedTicks /\ Tick(ResendCooldown)
    \/ LoginToSignup("A")
    \/ SignupBack("A")
    \/ SignupSubmit("A", Bob, EmailB, Pw1, Pw1, TRUE, "salt1")
    \/ LoginSubmit("A", EmailA, Pw1)
    \/ RecordLoginInsert("A")
    \/ RecordLoginCommit("A")
    \/ Logout("A")
    \/ LandingRoute("A", "login")
    \/ LoginForgot("A")
    \/ \E n \in OtpDraws : ResetSendOtp("A", EmailA, n, 0)
    \/ \E n \in OtpDraws : ResetVerify("A", generate_otp(n))
    \/ \E n \in OtpDraws : ResetResend("A", n, 0, 0)
    \/ ResetSubmitPassword("A", Pw2, Pw2, "salt2")
    \/ ResetBack("A")
    \/ StoreFails

SpecStore ==
    InitForms /\ [][NextStore]_vars

\* C19: no step of a handler changes the number of connections that are open
\* once its data operations have returned or raised
C19_ConnectionsReleased ==
    [][open_conns' = open_conns]_vars

\* the messages with which a handler reports a failure to the user
FailureMessages ==
    {"Signup failed", "Failed to update password", "Could not send OTP",
     "Could not resend OTP"}

\* C20: a step in which an operation of the store failed ends with a failure
\* message of its handler: the exception does not leave the handler, and the
\* handler does not go on as if the operation had succeeded
C20_StoreFailureHandled ==
    [][StoreFails => out'.msg \in FailureMessages]_vars


\* ------------------------------------------------------------------------
\* Specification: one user who logs in, looks at the dashboard and logs out
\* while days pass, one or two at a time.
\* ------------------------------------------------------------------------

\* the steps of the calendar
DaySteps ==
    {SecondsPerDay, 2 * SecondsPerDay}

NextDays ==
    \/ \E d \in DaySteps : Tick(d)
    \/ LoginSubmit("A", EmailA, Pw1)
    \/ RecordLoginInsert("A")
    \/ RecordLoginCommit("A")
    \/ Dashboard("A")
    \/ Logout("A")
    \/ LandingRoute("A", "login")

SpecDays ==
    InitReset /\ [][NextDays]_vars

\* the latest day of a non-empty set of days
LatestDay(days) ==
    CHOOSE d \in days : \A e \in days : e <= d

\* C21: the streak of a user changes at a recorded login only: a day that
\* passes leaves it as it was, and so does every step that is not the commit
\* of record_login; a login on day d leaves it as it was when d is a login day
\* already, adds 1 when the latest login day was d - 1, and makes it 1 when the
\* latest login day was before d - 1 or there was none
C21_StreakChangesAtLoginOnly ==
    [][ LET streak == get_current_streak(user_logins, 1)
            after  == get_current_streak(user_logins', 1)
            days   == DaysOf(1)
            d      == login_txn["A"].login_date
        IN
        /\ (\E step \in DaySteps : Tick(step)) => after = streak
        /\ ~RecordLoginCommit("A") => after = streak
        /\ RecordLoginCommit("A") =>
              /\ d \in days => after = streak
              /\ (d \notin days /\ days # {} /\ LatestDay(days) = d - 1)
                    => after = streak + 1
              /\ (d \notin days /\ (days = {} \/ LatestDay(days) < d - 1))
                    => after = 1
      ]_vars

\* two days after the second of two consecutive login days, with no login
\* since, the dashboard shows the streak 2
C21_Witness ==
    /\ DaysOf(1) # {}
    /\ CurrentDate(now) = LatestDay(DaysOf(1)) + 2
    /\ out.msg = "Streak"
    /\ out.value = 2


\* ------------------------------------------------------------------------
\* Specification: verifications in two browser sessions that reset one
\* email, with saves statement by statement, a commit that clears the
\* records and a clock that passes the lifetime of a code in one step.
\* ------------------------------------------------------------------------

\* no session is inside save_password_reset_otp
NoSaveOpen ==
    \A s \in Sessions : save_txn[s].pc = "idle"

NextVerify ==
    \/ ticks < SharedTicks /\ Tick(OtpLifetime + 1)
    \/ \E s \in Sessions :
        \/ save_txn[s].pc = "idle" /\ LoginForgot(s)
        \/ \E n \in OtpDraws : ResetSendBegin(s, EmailA, n)
        \/ \E n \in OtpDraws : ResetResendBegin(s, n)
        \/ SaveDeleteBegin(s)
        \/ SaveDeleteEnd(s)
        \/ SaveCommit(s)
        \/ save_txn[s].pc = "idle" /\ \E otp_input \in OtpInputs : ResetVerify(s, otp_input)
        \/ NoSaveOpen /\ ResetSubmitPassword(s, Pw2, Pw2, "salt2")
        \/ save_txn[s].pc = "idle" /\ ResetBack(s)

SpecVerify ==
    InitReset /\ [][NextVerify]_vars

\* the outcome of a verification by the three tests in their order: no row of
\* the email, the row inserted last has expired, its code is another
Classified(email, otp_input) ==
    IF ~HasRow(password_reset, email) THEN "No active OTP found"
    ELSE IF now > LatestRow(password_reset, email).otp_expiry THEN "OTP has expired"
    ELSE IF otp_input # LatestRow(password_reset, email).otp_code THEN "Invalid OTP"
    ELSE "OTP verified"

\* C22 as stated: every verification is classified by the three tests in
\* their order, whatever was entered.
C22_ClassifiedInOrder ==
    [][ \A s \in Sessions, otp_input \in OtpInputs :
          (save_txn[s].pc = "idle" /\ ResetVerify(s, otp_input))
          => out'.msg = Classified(session[s].reset_email, otp_input)
      ]_vars

\* C22: a verification whose input is six digits shows "no active OTP" when
\* the email has no record, otherwise "expired" when now is past the expiry of
\* the record inserted last, also when the code is wrong, otherwise "invalid"
\* when the code differs from that record's; an input that is empty or not
\* six digits is refused before any record is read
C22_SixDigitsClassifiedInOrder ==
    [][ \A s \in Sessions, otp_input \in OtpInputs :
          (save_txn[s].pc = "idle" /\ ResetVerify(s, otp_input))
          => IF Len(otp_input) = 6 /\ \A i \in 1..6 : otp_input[i] \in Digits
               THEN out'.msg = Classified(session[s].reset_email, otp_input)
               ELSE out'.msg \in {"Please enter OTP", "OTP must be a 6-digit number"}
      ]_vars

\* the email has two records, the older one still valid and the one inserted
\* last expired, and the code of the older one has been refused as expired
C22_Witness ==
    /\ out.msg = "OTP has expired"
    /\ Len(ResetRowsOf(password_reset, EmailA)) = 2
    /\ now <= ResetRowsOf(password_reset, EmailA)[1].otp_expiry
    /\ now > ResetRowsOf(password_reset, EmailA)[2].otp_expiry


\* C23: a verification that does not succeed, whether the record is missing
\* or expired, the code is another or the input is not six digits, leaves the
\* session with its step and cooldown, the records and the users as they
\* were; whatever was tried before, a verification with the code of the record
\* inserted last, not later than its expiry, succeeds
C23_FailedVerifyChangesNothing ==
    [][ \A s \in Sessions, otp_input \in OtpInputs :
          (save_txn[s].pc = "idle" /\ ResetVerify(s, otp_input))
          => LET email == session[s].reset_email IN
             /\ out'.msg # "OTP verified"
                  => /\ session' = session
                     /\ ResetStep(session'[s]) = "otp"
                     /\ password_reset' = password_reset
                     /\ users' = users
             /\ ( /\ HasRow(password_reset, email)
                  /\ otp_input = LatestRow(password_reset, email).otp_code
                  /\ now <= LatestRow(password_reset, email).otp_expiry )
                  => /\ out'.msg = "OTP verified"
                     /\ ResetStep(session'[s]) = "new_password"
      ]_vars

\* a wrong code has been refused in session A while the record of its email is
\* still valid and session B has not verified
C23_Witness ==
    /\ out.msg = "Invalid OTP"
    /\ ResetStep(session["A"]) = "otp"
    /\ ResetStep(session["B"]) # "new_password"
    /\ HasRow(password_reset, EmailA)
    /\ now <= LatestRow(password_reset, EmailA).otp_expiry
    /\ verified = {}


\* C24: a session in the new-password step commits exactly when the two
\* passwords are equal and meet the strength policy, whatever has become of
\* the record it verified and whatever time has passed
C24_CommitGuardedByFormOnly ==
    [][ \A new_pw \in {Pw2, Long2}, confirm_pw \in {Pw2, Long2} :
          ResetSubmitPassword("A", new_pw, confirm_pw, "salt2")
          => ( (new_pw = confirm_pw /\ ~Weak(new_pw))
               <=> /\ out'.msg = "Password reset successful"
                   /\ check_password(new_pw,
                          find_user_by_email(users', session["A"].reset_email).password)
                   /\ Mode(session'["A"]) = "login" )
      ]_vars


\* every request and resend for the email has run to its end
SavesCompleted(email) ==
    \A s \in Sessions : save_txn[s].pc = "idle" \/ save_txn[s].email # email

\* C25: once the requests and resends for an email have completed, a
\* verification for it with a six-digit code other than the one issued last
\* is not accepted, in whichever session it is entered
C25_LastIssuedSupersedes ==
    [][ \A s \in Sessions, n \in OtpDraws :
          ( /\ ResetStep(session[s]) = "otp"
            /\ last_issued[session[s].reset_email] # <<>>
            /\ generate_otp(n) # last_issued[session[s].reset_email]
            /\ SavesCompleted(session[s].reset_email)
            /\ ResetVerify(s, generate_otp(n)) )
          => out'.msg # "OTP verified" ]_vars


\* C26: a password check that succeeds starts record_login once for the user
\* of the session and nothing else starts it; when record_login returns, a
\* login of that user on the current day is stored; when it raises, nothing is
\* stored; either way the session is authenticated, shows "Login successful"
\* and is routed to the dashboard
C26_LoginRecordedOnce ==
    [][ LET txn   == login_txn["A"]
            after == session'["A"]
        IN
        /\ (txn.pc # "insert" /\ login_txn'["A"].pc = "insert")
             <=> (~session["A"].authenticated /\ after.authenticated)
        /\ login_txn'["A"].pc = "insert" => login_txn'["A"].user_id = after.user.id
        /\ RecordLoginCommit("A") =>
             /\ LoginConflict(user_logins', txn.user_id, CurrentDate(now))
             /\ after.authenticated
             /\ after.auth_mode = "dashboard"
             /\ out'.msg = "Login successful"
        /\ (\E opened \in BOOLEAN : RecordLoginFails("A", opened)) =>
             /\ user_logins' = user_logins
             /\ after.authenticated
             /\ after.auth_mode = "dashboard"
             /\ out'.msg = "Login successful"
      ]_vars

\* record_login has raised: the session is on the dashboard and no login of
\* its user is stored
C26_Witness ==
    /\ session["A"].authenticated
    /\ session["A"].auth_mode = "dashboard"
    /\ out.msg = "Login successful"
    /\ login_txn["A"].pc = "idle"
    /\ DaysOf(session["A"].user.id) = {}


\* C27: whenever a code is generated and stored for an email that has a
\* record, the code of that record was generated at least ResendCooldown
\* seconds earlier (a code is generated OtpLifetime seconds before its expiry)
C27_GenerationsCooldownApart ==
    [][ \A email \in EmailInputs :
          ( /\ HasRow(password_reset, email)
            /\ HasRow(password_reset', email)
            /\ ResetRowsOf(password_reset', email) # ResetRowsOf(password_reset, email) )
          => LatestRow(password_reset', email).otp_expiry
               >= LatestRow(password_reset, email).otp_expiry + ResendCooldown ]_vars


\* ------------------------------------------------------------------------
\* Specification: routing of two browser sessions by the page query
\* parameter, login, dashboard and logout.
\* ------------------------------------------------------------------------

\* the values of ?page= a browser sends
Pages ==
    {"landing", "login", "reset", "dashboard"}

\* a script run with ?page= in the URL (app.py 4-6): the parameter overwrites
\* auth_mode before the page is chosen
PageQuery(s, page) ==
    /\ login_txn[s].pc = "idle"
    /\ session' = [session EXCEPT ![s].auth_mode = page]
    /\ out' = Shown("")
    /\ UNCHANGED <<clock, steady, login_txn, tables, history>>

\* the guard of the dashboard outside chat mode (dashboard.py 209-213)
DashboardGuard(s) ==
    /\ Mode(session[s]) = "dashboard"
    /\ login_txn[s].pc = "idle"
    /\ session[s].user = NoUser
    /\ out' = Shown("You must be logged in to view the dashboard")
    /\ UNCHANGED <<clock, steady, login_txn, tables, session, history>>

NextRoute ==
    \/ ticks < MaxDays /\ Tick(SecondsPerDay)
    \/ \E s \in Sessions :
        \/ \E page \in Pages : PageQuery(s, page)
        \/ LandingRoute(s, "login")
        \/ \E password \in {Pw1, Pw2} : LoginSubmit(s, EmailA, password)
        \/ RecordLoginInsert(s)
        \/ RecordLoginCommit(s)
        \/ \E opened \in BOOLEAN : RecordLoginFails(s, opened)
        \/ LoginForgot(s)
        \/ ResetBack(s)
        \/ Dashboard(s)
        \/ DashboardGuard(s)
        \/ Logout(s)

SpecRoute ==
    InitReset /\ [][NextRoute]_vars

\* a step of a page other than the dashboard, in session s
OtherPageStep(s) ==
    \/ LandingRoute(s, "login")
    \/ \E password \in {Pw1, Pw2} : LoginSubmit(s, EmailA, password)
    \/ LoginForgot(s)
    \/ ResetBack(s)

\* C28: an authenticated session holds the id and username of an account, put
\* there by the step that checked its password; whatever auth_mode or ?page=
\* says it is served by the dashboard and by no other page; a session without
\* a user is not shown the dashboard; after Logout the session is
\* unauthenticated and holds no user
C28_AuthenticatedHoldsUser ==
    [][ \A s \in Sessions :
          LET ss    == session[s]
              after == session'[s]
          IN
          /\ ss.authenticated =>
               /\ ss.user # NoUser
               /\ \E u \in users : u.id = ss.user.id /\ u.username = ss.user.username
               /\ ~OtherPageStep(s)
          /\ (~ss.authenticated /\ after.authenticated) =>
               \E password \in {Pw1, Pw2} :
                  /\ LoginSubmit(s, EmailA, password)
                  /\ check_password(password, find_user_by_email(users, EmailA).password)
                  /\ after.user.id = find_user_by_email(users, EmailA).id
          /\ (after.user # ss.user /\ after.user # NoUser) => after.authenticated
          /\ ss.user = NoUser => ~Dashboard(s)
          /\ Logout(s) => (~after.authenticated /\ after.user = NoUser)
      ]_vars

\* an authenticated session whose auth_mode a query parameter has set to the
\* login page is shown the dashboard
C28_Witness ==
    /\ session["A"].authenticated
    /\ session["A"].auth_mode = "login"
    /\ login_txn["A"].pc = "idle"
    /\ out.msg = "Streak"
    /\ ~session["B"].authenticated
    /\ session["B"].auth_mode = "dashboard"


\* ------------------------------------------------------------------------
\* db.py: project files.  create_project_file and delete_project run as one
\* step, delete_project_file statement by statement for two browser
\* sessions (READ COMMITTED, row locks held until the commit).
\* ------------------------------------------------------------------------

\* the project_files.id values the sequence hands out
MaxFiles == 3

\* the projects of the account at the start: create_project has run twice
\* (db.py 237-257), files_count has its default 0
TwoProjects ==
    [p \in {1, 2} |-> 0]

\* SELECT ... FROM project_files WHERE project_id = %s, as a set
FilesOf(rows, project_id) ==
    {f \in rows : f.project_id = project_id}

\* another session's open transaction has written the projects row
ProjectRowLocked(s, project_id) ==
    \E t \in Sessions \ {s} :
        file_txn[t].pc = "commit" /\ file_txn[t].project_id = project_id

\* another session's open transaction has deleted the project_files row
FileRowLocked(s, file_id) ==
    \E t \in Sessions \ {s} :
        /\ file_txn[t].pc \in {"update", "commit"}
        /\ file_txn[t].file_id = file_id
        /\ file_txn[t].deleted

\* GREATEST(files_count - 1, 0) (db.py 402)
Decrement(files_count) ==
    IF files_count - 1 > 0 THEN files_count - 1 ELSE 0

\* create_project_file (db.py 298-339): the INSERT, the increment and the
\* commit
CreateProjectFile(project_id) ==
    /\ project_id \in DOMAIN projects
    /\ file_id_seq < MaxFiles
    /\ \A s \in Sessions : ~ProjectRowLocked(s, project_id)
    /\ file_id_seq' = file_id_seq + 1
    /\ project_files' = project_files \cup
                          {[id |-> file_id_seq + 1, project_id |-> project_id]}
    /\ projects' = [projects EXCEPT ![project_id] = @ + 1]
    /\ out' = [msg |-> "file created", value |-> file_id_seq + 1, mail |-> "none"]
    /\ UNCHANGED <<clock, bcrypt_truncates, smtp_up, open_conns, signup_txn, save_txn,
                   file_txn, login_txn, tables, session, history>>

\* delete_project (db.py 342-368): both DELETEs and the commit
DeleteProject(project_id) ==
    /\ project_id \in DOMAIN projects
    /\ \A s \in Sessions : ~ProjectRowLocked(s, project_id)
    /\ \A f \in FilesOf(project_files, project_id), s \in Sessions :
          ~FileRowLocked(s, f.id)
    /\ project_files' = project_files \ FilesOf(project_files, project_id)
    /\ projects' = [p \in DOMAIN projects \ {project_id} |-> projects[p]]
    /\ out' = Shown("project deleted")
    /\ UNCHANGED <<clock, bcrypt_truncates, smtp_up, open_conns, signup_txn, save_txn,
                   file_id_seq, file_txn, login_txn, tables, session, history>>

\* delete_project_file: the SELECT with the JOIN (db.py 380-393)
FileDeleteSelect(s, file_id) ==
    /\ file_txn[s].pc = "idle"
    /\ IF \E f \in project_files : f.id = file_id /\ f.project_id \in DOMAIN projects THEN
         LET row == CHOOSE f \in project_files : f.id = file_id IN
         /\ file_txn' = [file_txn EXCEPT
                            ![s] = [NoFileTxn EXCEPT !.pc = "delete",
                                                     !.file_id = file_id,
                                                     !.project_id = row.project_id]]
         /\ out' = Shown("")
       ELSE
         /\ out' = Shown("file not deleted")
         /\ UNCHANGED file_txn
    /\ UNCHANGED <<clock, bcrypt_truncates, smtp_up, open_conns, signup_txn, save_txn,
                   projects, project_files, file_id_seq, login_txn, tables, session,
                   history>>

\* delete_project_file: DELETE FROM project_files WHERE id = %s (db.py 398);
\* it waits for a transaction that has deleted the row and then finds no row
FileDeleteRow(s) ==
    LET txn == file_txn[s] IN
    /\ txn.pc = "delete"
    /\ ~FileRowLocked(s, txn.file_id)
    /\ file_txn' = [file_txn EXCEPT
                       ![s].pc = "update",
                       ![s].deleted = \E f \in project_files : f.id = txn.file_id]
    /\ out' = Shown("")
    /\ UNCHANGED <<clock, bcrypt_truncates, smtp_up, open_conns, signup_txn, save_txn,
                   projects, project_files, file_id_seq, login_txn, tables, session,
                   history>>

\* delete_project_file: the UPDATE of files_count (db.py 401-404), whatever
\* the DELETE has deleted; it waits for a transaction that has written the row
FileDeleteUpdate(s) ==
    LET txn == file_txn[s] IN
    /\ txn.pc = "update"
    /\ ~ProjectRowLocked(s, txn.project_id)
    /\ file_txn' = [file_txn EXCEPT
                       ![s].pc = "commit",
                       ![s].files_count =
                           IF txn.project_id \in DOMAIN projects
                             THEN Decrement(projects[txn.project_id])
                             ELSE 0]
    /\ out' = Shown("")
    /\ UNCHANGED <<clock, bcrypt_truncates, smtp_up, open_conns, signup_txn, save_txn,
                   projects, project_files, file_id_seq, login_txn, tables, session,
                   history>>

\* delete_project_file: the commit (db.py 409-410)
FileDeleteCommit(s) ==
    LET txn == file_txn[s] IN
    /\ txn.pc = "commit"
    /\ project_files' = IF txn.deleted
                          THEN {f \in project_files : f.id # txn.file_id}
                          ELSE project_files
    /\ projects' = IF txn.project_id \in DOMAIN projects
                     THEN [projects EXCEPT ![txn.project_id] = txn.files_count]
                     ELSE projects
    /\ file_txn' = [file_txn EXCEPT ![s] = NoFileTxn]
    /\ out' = Shown("file deleted")
    /\ UNCHANGED <<clock, bcrypt_truncates, smtp_up, open_conns, signup_txn, save_txn,
                   file_id_seq, login_txn, tables, session, history>>

InitFiles ==
    /\ now = 0
    /\ ticks = 0
    /\ bcrypt_truncates = TRUE
    /\ projects = TwoProjects
    /\ project_files = {}
    /\ file_id_seq = 0
    /\ file_txn = [s \in Sessions |-> NoFileTxn]
    /\ smtp_up = TRUE
    /\ open_conns = 0
    /\ users = TwoAccounts
    /\ password_reset = <<>>
    /\ user_logins = <<>>
    /\ user_activity = {}
    /\ session = [s \in Sessions |-> [NewSession EXCEPT !.auth_mode = "login"]]
    /\ login_txn = [s \in Sessions |-> NoTxn]
    /\ signup_txn = [s \in Sessions |-> NoSignup]
    /\ save_txn = [s \in Sessions |-> NoSave]
    /\ out = Shown("")
    /\ last_plain = [e \in EmailInputs |-> Pw1]
    /\ prev_plain = [e \in EmailInputs |-> <<>>]
    /\ last_issued = [e \in EmailInputs |-> <<>>]
    /\ verified = {}

NextFiles ==
    \/ \E project_id \in {1, 2} : CreateProjectFile(project_id)
    \/ \E project_id \in {1, 2} : DeleteProject(project_id)
    \/ \E s \in Sessions :
        \/ \E file_id \in 1..MaxFiles : FileDeleteSelect(s, file_id)
        \/ FileDeleteRow(s)
        \/ FileDeleteUpdate(s)
        \/ FileDeleteCommit(s)

SpecFiles ==
    InitFiles /\ [][NextFiles]_vars

\* C29: in every state the files_count of every project is the number of
\* project_files rows of the project, and it is not negative
C29_FilesCountMatchesRows ==
    \A p \in DOMAIN projects :
        /\ projects[p] = Cardinality(FilesOf(project_files, p))
        /\ projects[p] >= 0


\* ------------------------------------------------------------------------
\* Specification: the password reset of the owner of an email (session A)
\* who keeps acting, while time passes without bound and another session (B)
\* runs one reset for the same email.  The handlers compare the clock with
\* stored instants only (auth.py 703, 716), so d seconds passing is written
\* as every stored instant moving d seconds back; the clock stays at 1, above
\* the floor 0 of an instant long past.
\* ------------------------------------------------------------------------

\* an instant d seconds further in the past
ShiftBack(t, d) ==
    IF t > d THEN t - d ELSE 0

\* int(time.time()) is d seconds later (auth.py 701, 715)
Elapse(d) ==
    /\ password_reset' = [i \in 1..Len(password_reset) |->
                            [password_reset[i] EXCEPT !.otp_expiry = ShiftBack(@, d)]]
    /\ session' = [s \in Sessions |->
                     [session[s] EXCEPT !.otp_cooldown_until = ShiftBack(@, d)]]
    /\ verified' = {[r EXCEPT !.otp_expiry = ShiftBack(@, d)] : r \in verified}
    /\ UNCHANGED <<clock, steady, login_txn, users, user_logins, user_activity, out,
                   last_plain, prev_plain, last_issued>>

\* the durations that pass: the resend cooldown, and the lifetime of a code
\* and a second
ElapseSteps ==
    {ResendCooldown, OtpLifetime + 1}

InitFair ==
    /\ now = 1
    /\ ticks = 0
    /\ bcrypt_truncates = TRUE
    /\ projects = NoProjects
    /\ project_files = {}
    /\ file_id_seq = 0
    /\ file_txn = [s \in Sessions |-> NoFileTxn]
    /\ smtp_up = TRUE
    /\ open_conns = 0
    /\ users = TwoAccounts
    /\ password_reset = <<>>
    /\ user_logins = <<>>
    /\ user_activity = {}
    /\ session = [s \in Sessions |-> [NewSession EXCEPT !.auth_mode = "reset",
                                                        !.reset_step = "email"]]
    /\ login_txn = [s \in Sessions |-> NoTxn]
    /\ signup_txn = [s \in Sessions |-> NoSignup]
    /\ save_txn = [s \in Sessions |-> NoSave]
    /\ out = Shown("")
    /\ last_plain = [e \in EmailInputs |-> Pw1]
    /\ prev_plain = [e \in EmailInputs |-> <<>>]
    /\ last_issued = [e \in EmailInputs |-> <<>>]
    /\ verified = {}

\* Resend in session s issues a code
ResendIssues(s) ==
    \E n \in OtpDraws :
        ResetResend(s, n, 0, 0) /\ out'.msg = "New OTP sent"

\* Verify in session s with the code of the record is accepted
VerifyAccepted(s) ==
    \E n \in OtpDraws :
        ResetVerify(s, generate_otp(n)) /\ out'.msg = "OTP verified"

\* Reset in session s with an accepted form
SubmitAccepted(s) ==
    ResetSubmitPassword(s, Pw2, Pw2, "salt2")

NextFair ==
    \/ \E d \in ElapseSteps : Elapse(d)
    \/ \E s \in Sessions, n \in OtpDraws : ResetSendOtp(s, EmailA, n, 0)
    \/ \E s \in Sessions, n \in OtpDraws : ResetResend(s, n, 0, 0)
    \/ \E s \in Sessions, otp_input \in OtpInputs : ResetVerify(s, otp_input)
    \/ ResetSubmitPassword("A", Pw2, Pw1, "salt2")
    \/ \E s \in Sessions : SubmitAccepted(s)

\* time passes; the owner of the email, whenever the page allows it again
\* and again, resends, enters the code of the latest mail and submits an
\* accepted password
Fairness ==
    /\ WF_vars(\E d \in ElapseSteps : Elapse(d))
    /\ SF_vars(ResendIssues("A"))
    /\ SF_vars(VerifyAccepted("A"))
    /\ SF_vars(SubmitAccepted("A"))

SpecFair ==
    InitFair /\ [][NextFair]_vars /\ Fairness

\* session s is at the OTP step of a reset
OtpPending(s) ==
    Mode(session[s]) = "reset" /\ ResetStep(session[s]) = "otp"

\* session s is at the new-password step of a reset
PasswordEntry(s) ==
    Mode(session[s]) = "reset" /\ ResetStep(session[s]) = "new_password"

\* the reset of session s has committed: the session is back at the login page
Committed(s) ==
    Mode(session[s]) = "login" /\ session[s].reset_step = Absent

\* C30: from every state in which the owner's session is at the OTP step,
\* whatever has become of the record, the session reaches the new-password
\* step, and from there the commit
C30_ResetNeverStuck ==
    /\ OtpPending("A") ~> PasswordEntry("A")
    /\ PasswordEntry("A") ~> Committed("A")

\* the owner's session is at the OTP step, the other session's commit has
\* deleted the record and the cooldown still runs
C30_Witness ==
    /\ OtpPending("A")
    /\ ~HasRow(password_reset, EmailA)
    /\ OnCooldown(now, session["A"].otp_cooldown_until)
    /\ Committed("B")


====
